---- MODULE Spec2Model ----
(***************************************************************************)
(* Model of the french-repetition-checker core: the tokenizer              *)
(* (word_extractor.py), the classifier (word_classifier.py) over the       *)
(* dictionary (lexicon_loader.py), the clustering of a lemma's occurrences *)
(* (find_repetition_clusters) and the report pipeline with its two file    *)
(* loaders and its export (generate_repetitions_report.py).                *)
(*                                                                         *)
(* Strings are sequences of one-character strings; offsets are Python's    *)
(* 0-based offsets, so text[i] of the source is At(text, i) here and       *)
(* text[s:e] is Slice(text, s, e).                                         *)
(***************************************************************************)
EXTENDS Integers, Sequences, FiniteSets, TLC

VARIABLES
    text,                   \* extract_words: the input text
    lexicon_words,          \* extract_words: Optional[Set[str]]
    compounds_with_spaces,  \* extract_words: Optional[Set[str]]
    i,                      \* extract_words: the scan cursor
    words,                  \* extract_words: the tokens emitted so far
    pc,                     \* "scan" while the outer loop runs, "done" after return
    entries,                \* Lexicon.entries: form -> list of LexiconEntry
    custom_entries,         \* Lexicon._custom_entries, when the attribute exists
    acronyms,               \* WordClassifier.acronyms
    proper_nouns,           \* WordClassifier.proper_nouns
    last,                   \* the latest classifier call: arguments, registries before, result
    positions,              \* find_repetition_clusters: list of (word, start, end)
    max_distance,           \* find_repetition_clusters: the base distance
    min_occurrences,        \* find_repetition_clusters: the least cluster size asked for
    total_occurrences,      \* len(positions), once read
    adaptive_max_distance,  \* the distance threshold, once computed
    sorted_positions,       \* positions sorted by start
    clusters,               \* the clusters kept so far
    current_cluster,        \* the cluster being grown
    runs,                   \* every cluster closed so far, kept or dropped for its size
    idx,                    \* the loop index i of lines 61-74
    cpc,                    \* "idle", "call", "loop", "done"; "sweep" for thresholds alone
    rpc,                    \* generate_html_report: where the run stands
    overlay_file,           \* the <text>_custom_lexicon.tsv file: absent, or its rows
    dictionary_file,        \* data/OpenLexicon.tsv: its columns and rows
    report_min_occurrences, \* generate_html_report: the min_occurrences argument
    custom_lexicon,         \* the value load_custom_lexicon returned
    lexicon_compounds,      \* Lexicon.compounds_with_spaces, the set the Lexicon holds
    report_classifications, \* generate_html_report: lowercased word -> WordClassification
    lemma_positions,        \* lemma -> occurrences, in insertion order
    unknown_lemma_positions,\* "CATEGORY:lemma" -> occurrences, in insertion order
    custom_special_words,   \* lowercased word -> overlay category, lemma, occurrences
    repetitions,            \* lemma -> count, the lemmas kept as repetitions
    cgram_data,             \* category -> reported lemmas, in insertion order
    lemma_clusters,         \* lemma -> its clusters, where there are any
    files_written           \* the files the run has written

extract_vars == <<text, lexicon_words, compounds_with_spaces, i, words, pc>>
classifier_vars == <<entries, custom_entries, acronyms, proper_nouns, last>>
cluster_vars == <<positions, max_distance, min_occurrences, total_occurrences,
                  adaptive_max_distance, sorted_positions, clusters,
                  current_cluster, runs, idx, cpc>>
report_vars == <<rpc, overlay_file, dictionary_file, report_min_occurrences,
                 custom_lexicon, lexicon_compounds, report_classifications,
                 lemma_positions, unknown_lemma_positions, custom_special_words,
                 repetitions, cgram_data, lemma_clusters, files_written>>
vars == <<text, lexicon_words, compounds_with_spaces, i, words, pc,
          entries, custom_entries, acronyms, proper_nouns, last,
          positions, max_distance, min_occurrences, total_occurrences,
          adaptive_max_distance, sorted_positions, clusters, current_cluster,
          runs, idx, cpc,
          rpc, overlay_file, dictionary_file, report_min_occurrences,
          custom_lexicon, lexicon_compounds, report_classifications,
          lemma_positions, unknown_lemma_positions, custom_special_words,
          repetitions, cgram_data, lemma_clusters, files_written>>

\* find_repetition_clusters not called
ClusterIdle ==
    /\ positions = <<>>
    /\ max_distance = 0
    /\ min_occurrences = 0
    /\ total_occurrences = 0
    /\ adaptive_max_distance = 0
    /\ sorted_positions = <<>>
    /\ clusters = <<>>
    /\ current_cluster = <<>>
    /\ runs = <<>>
    /\ idx = 0
    /\ cpc = "idle"

\* load_custom_lexicon not yet called: no value returned
NotLoaded == [failed |-> FALSE, map |-> <<>>]

\* generate_html_report not called
ReportIdle ==
    /\ rpc = "idle"
    /\ overlay_file = [exists |-> FALSE, rows |-> <<>>]
    /\ dictionary_file = [columns |-> {}, rows |-> <<>>]
    /\ report_min_occurrences = 0
    /\ custom_lexicon = NotLoaded
    /\ lexicon_compounds = {}
    /\ report_classifications = <<>>
    /\ lemma_positions = <<>>
    /\ unknown_lemma_positions = <<>>
    /\ custom_special_words = <<>>
    /\ repetitions = <<>>
    /\ cgram_data = <<>>
    /\ lemma_clusters = <<>>
    /\ files_written = {}

----------------------------------------------------------------------------
(* Bounds of the model *)

MaxTextLen == 5

----------------------------------------------------------------------------
(* Characters: str.isalpha / isdigit / isspace / isupper / lower on the     *)
(* characters the model draws from.                                        *)

\* the ligatures \oe, \ae and their capitals, each one character
LigOe == "{oe}"
LigAe == "{ae}"
LigOE == "{OE}"
LigAE == "{AE}"

LowerLetters == {"a", "b", "c", "d", "e", "g", "h", "i", "l", "m", "n", "o", "r",
                 "s", "t", "u", "y", LigOe, LigAe}
UpperLetters == {"A", "B", "C", "E", "L", "O", "U", LigOE, LigAE}
Digits == {"0", "1", "2", "3", "4", "5", "6", "7", "8", "9"}
Whitespace == {" ", "\t", "\n"}

IsAlpha(c) == c \in LowerLetters \cup UpperLetters
IsDigit(c) == c \in Digits
IsSpace(c) == c \in Whitespace
IsUpperChar(c) == c \in UpperLetters
IsLowerChar(c) == c \in LowerLetters

LowerChar(c) ==
    CASE c = "A" -> "a"
      [] c = "B" -> "b"
      [] c = "C" -> "c"
      [] c = "E" -> "e"
      [] c = "L" -> "l"
      [] c = "O" -> "o"
      [] c = "U" -> "u"
      [] c = LigOE -> LigOe
      [] c = LigAE -> LigAe
      [] OTHER -> c

Lower(s) == [k \in 1..Len(s) |-> LowerChar(s[k])]

At(s, k) == s[k + 1]
Slice(s, from, to) == SubSeq(s, from + 1, to)

\* Optional[Set[str]]: None, or a set
NoneSet == [given |-> FALSE, elems |-> {}]
SomeSet(S) == [given |-> TRUE, elems |-> S]
\* Python truth value of an Optional[Set]: None and the empty set are falsy
Truthy(opt) == opt.given /\ opt.elems # {}

----------------------------------------------------------------------------
(* word_extractor.py *)

is_latin_letter(c) == IsAlpha(c)

\* str.strip(): leading and trailing whitespace removed
RECURSIVE LStrip(_)
LStrip(s) ==
    IF s # <<>> /\ IsSpace(Head(s)) THEN LStrip(Tail(s)) ELSE s

RECURSIVE RStrip(_)
RStrip(s) ==
    IF s # <<>> /\ IsSpace(s[Len(s)]) THEN RStrip(SubSeq(s, 1, Len(s) - 1)) ELSE s

Strip(s) == RStrip(LStrip(s))

\* The pattern ^\d+(?:\s\d+)*(?:,\d+)?$ as an automaton run from state q:
\*   "start" a digit is needed; "int" inside an integer group (accepting);
\*   "sep" after a \s, a digit is needed; "comma" after the comma, a digit is
\*   needed; "dec" inside the decimals (accepting).
RECURSIVE NumberMatch(_, _)
NumberMatch(s, q) ==
    IF s = <<>> THEN q \in {"int", "dec"}
    ELSE LET c == Head(s) IN
         CASE q = "start" -> IsDigit(c) /\ NumberMatch(Tail(s), "int")
           [] q = "int"   -> \/ IsDigit(c) /\ NumberMatch(Tail(s), "int")
                             \/ IsSpace(c) /\ NumberMatch(Tail(s), "sep")
                             \/ c = "," /\ NumberMatch(Tail(s), "comma")
           [] q = "sep"   -> IsDigit(c) /\ NumberMatch(Tail(s), "int")
           [] q = "comma" -> IsDigit(c) /\ NumberMatch(Tail(s), "dec")
           [] q = "dec"   -> IsDigit(c) /\ NumberMatch(Tail(s), "dec")

\* the grammar test without the strip() of line 64
is_number_with_separators_NoStrip(s) == NumberMatch(s, "start")

is_number_with_separators(s) == NumberMatch(Strip(s), "start")

IsWordChar(c) == is_latin_letter(c) \/ c \in {"-", "'"}
IsAlnumChar(c) == is_latin_letter(c) \/ IsDigit(c)
IsNumberRunChar(c) == IsDigit(c) \/ c \in {" ", ","}
\* line 157 without its "and not text[i].isdigit()"
IsSeparator_DigitsSkipped(c) == ~is_latin_letter(c)
IsSeparator(c) == ~is_latin_letter(c) /\ ~IsDigit(c)

\* the loop conditions of the source's "while k < len(text) and <test>: k += 1"
InRun(test, c) ==
    CASE test = "separator" -> IsSeparator(c)
      [] test = "space"     -> IsSpace(c)
      [] test = "letter"    -> is_latin_letter(c)
      [] test = "word"      -> IsWordChar(c)
      [] test = "alnum"     -> IsAlnumChar(c)
      [] test = "digit"     -> IsDigit(c)
      [] test = "numberrun" -> IsNumberRunChar(c)

\* first offset >= k whose character fails the test (or len(t))
RECURSIVE RunEnd(_, _, _)
RunEnd(t, k, test) ==
    IF k < Len(t) /\ InRun(test, At(t, k)) THEN RunEnd(t, k + 1, test) ELSE k

\* extract_potential_compound: (compound, end)
extract_potential_compound(t, start_pos) ==
    LET end == RunEnd(t, start_pos, "word")
    IN  [compound |-> Slice(t, start_pos, end), end |-> end]

\* membership without the lower() of line 101
check_compound_in_lexicon_CaseSensitive(compound, lex) ==
    IF ~lex.given THEN FALSE ELSE compound \in lex.elems

check_compound_in_lexicon(compound, lex) ==
    IF ~lex.given THEN FALSE ELSE Lower(compound) \in lex.elems

\* ' '.join(ws)
RECURSIVE JoinSpace(_)
JoinSpace(ws) ==
    IF ws = <<>> THEN <<>>
    ELSE IF Len(ws) = 1 THEN ws[1]
    ELSE ws[1] \o <<" ">> \o JoinSpace(Tail(ws))

\* The inner loop "for _ in range(n_words)" of the multi-word probe, with
\* `left` iterations to go: temp_pos and temp_words when the loop ends.
RECURSIVE ReadWordGroups(_, _, _, _)
ReadWordGroups(t, temp_pos, temp_words, left) ==
    IF left = 0 THEN [temp_pos |-> temp_pos, temp_words |-> temp_words]
    ELSE LET p == RunEnd(t, temp_pos, "space") IN
         IF p >= Len(t) \/ ~is_latin_letter(At(t, p))
         THEN [temp_pos |-> p, temp_words |-> temp_words]
         ELSE LET e == RunEnd(t, p, "word") IN
              ReadWordGroups(t, e, Append(temp_words, Slice(t, p, e)), left - 1)

max_words_to_test == 5

\* the probe with the word counts tried from 2 upwards: the shortest form wins
RECURSIVE ProbeUpFrom(_, _, _, _)
ProbeUpFrom(t, k, compounds, n_words) ==
    IF n_words > 5
    THEN [compound_found |-> FALSE, best_match |-> <<>>, best_match_end |-> k]
    ELSE LET r == ReadWordGroups(t, k, <<>>, n_words)
             potential_compound == JoinSpace(r.temp_words)
         IN  IF Len(r.temp_words) = n_words
                /\ Lower(potential_compound) \in compounds.elems
             THEN [compound_found |-> TRUE, best_match |-> potential_compound,
                   best_match_end |-> r.temp_pos]
             ELSE ProbeUpFrom(t, k, compounds, n_words + 1)

ProbeFrom_ShortestFirst(t, k, compounds, n_words) == ProbeUpFrom(t, k, compounds, 2)

\* The loop "for n_words in range(max_words_to_test, 1, -1)" from n_words down:
\* the first n_words whose groups form a known multi-word form.
RECURSIVE ProbeFrom(_, _, _, _)
ProbeFrom(t, k, compounds, n_words) ==
    IF n_words < 2
    THEN [compound_found |-> FALSE, best_match |-> <<>>, best_match_end |-> k]
    ELSE LET r == ReadWordGroups(t, k, <<>>, n_words)
             potential_compound == JoinSpace(r.temp_words)
         IN  IF Len(r.temp_words) = n_words
                /\ Lower(potential_compound) \in compounds.elems
             THEN [compound_found |-> TRUE, best_match |-> potential_compound,
                   best_match_end |-> r.temp_pos]
             ELSE ProbeFrom(t, k, compounds, n_words - 1)

ProbeSpaceCompound(t, k, compounds) ==
    IF Truthy(compounds)
    THEN ProbeFrom(t, k, compounds, max_words_to_test)
    ELSE [compound_found |-> FALSE, best_match |-> <<>>, best_match_end |-> k]

Token(w, s, e) == [word |-> w, start |-> s, end |-> e]

\* the uppercase test of line 234 taken for a letter test
HasUpper_AnyLetter(s) == \E k \in 1..Len(s) : IsAlpha(s[k])

HasUpper(s) == \E k \in 1..Len(s) : IsUpperChar(s[k])

\* the alphanumeric-acronym branch without its "i = temp_i"
LetterToken_AcronymKeepsCursor(t, start, lex) ==
    LET pc0 == extract_potential_compound(t, start)
        temp_i == RunEnd(t, start, "letter")
    IN  IF Truthy(lex) /\ check_compound_in_lexicon(pc0.compound, lex)
        THEN Token(pc0.compound, start, pc0.end)
        ELSE IF HasUpper(Slice(t, start, temp_i))
                /\ temp_i < Len(t) /\ IsDigit(At(t, temp_i))
             THEN LET e == RunEnd(t, temp_i, "alnum")
                  IN  [word |-> Slice(t, start, e), start |-> start, end |-> start]
             ELSE Token(Slice(t, start, temp_i), start, temp_i)

\* lines 216-251: the token at a letter when no multi-word form matched
LetterToken(t, start, lex) ==
    LET pc0 == extract_potential_compound(t, start)
        temp_i == RunEnd(t, start, "letter")
    IN  IF Truthy(lex) /\ check_compound_in_lexicon(pc0.compound, lex)
        THEN Token(pc0.compound, start, pc0.end)
        ELSE IF HasUpper(Slice(t, start, temp_i))
                /\ temp_i < Len(t) /\ IsDigit(At(t, temp_i))
             THEN LET e == RunEnd(t, temp_i, "alnum")
                  IN  Token(Slice(t, start, e), start, e)
             ELSE Token(Slice(t, start, temp_i), start, temp_i)

\* a valid number kept without its .strip()
DigitToken_Unstripped(t, start) ==
    LET temp_end == RunEnd(t, start, "numberrun")
        potential_number == Slice(t, start, temp_end)
    IN  IF is_number_with_separators(potential_number)
        THEN Token(potential_number, start, temp_end)
        ELSE LET e == RunEnd(t, start, "digit")
             IN  Token(Slice(t, start, e), start, e)

\* the rejected-number fallback moving the cursor past the whole run
DigitToken_SkipsRun(t, start) ==
    LET temp_end == RunEnd(t, start, "numberrun")
        potential_number == Slice(t, start, temp_end)
    IN  IF NumberMatch(Strip(potential_number), "start")
        THEN [word |-> Strip(potential_number), start |-> start, end |-> temp_end]
        ELSE [word |-> Slice(t, start, RunEnd(t, start, "digit")),
              start |-> start, end |-> temp_end]

\* lines 254-273: the token at a digit
DigitToken(t, start) ==
    LET temp_end == RunEnd(t, start, "numberrun")
        potential_number == Slice(t, start, temp_end)
    IN  IF is_number_with_separators(potential_number)
        THEN Token(Strip(potential_number), start, temp_end)
        ELSE LET e == RunEnd(t, start, "digit")
             IN  Token(Slice(t, start, e), start, e)

\* One iteration of the outer loop from a cursor already on a letter or digit
NextToken(t, start, lex, compounds) ==
    IF is_latin_letter(At(t, start))
    THEN LET m == ProbeSpaceCompound(t, start, compounds)
         IN  IF m.compound_found /\ m.best_match # <<>>
             THEN Token(m.best_match, start, m.best_match_end)
             ELSE LetterToken(t, start, lex)
    ELSE DigitToken(t, start)

----------------------------------------------------------------------------
(* Inputs of the tokenizer *)

TextAlphabet == {"a", "A", "1", " ", ",", "'"}

Texts == UNION {[1..n -> TextAlphabet] : n \in 0..MaxTextLen}

W_a_a == <<"a", " ", "a">>
W_a_a_a == <<"a", " ", "a", " ", "a">>
W_aqa == <<"a", "'", "a">>
W_aq == <<"a", "'">>
W_aqa_a == <<"a", "'", "a", " ", "a">>

\* (lexicon_words, compounds_with_spaces) pairs
DictionaryChoices ==
    { <<NoneSet, NoneSet>>,
      <<SomeSet({W_aqa, W_aq}), NoneSet>>,
      <<NoneSet, SomeSet({W_a_a, W_a_a_a})>>,
      <<SomeSet({W_aqa}), SomeSet({W_a_a, W_aqa_a})>>,
      <<SomeSet({}), SomeSet({})>> }

\* no dictionary loaded, no classifier call made
NoCall == [op |-> "none"]
ClassifierIdle ==
    /\ entries = <<>>
    /\ custom_entries = [present |-> FALSE, map |-> <<>>]
    /\ acronyms = {}
    /\ proper_nouns = {}
    /\ last = NoCall

----------------------------------------------------------------------------
(* extract_words as a state machine: one action per outer-loop iteration *)

InitExtract ==
    /\ text \in Texts
    /\ \E d \in DictionaryChoices :
          /\ lexicon_words = d[1]
          /\ compounds_with_spaces = d[2]
    /\ i = 0
    /\ words = <<>>
    /\ pc = "scan"
    /\ ClassifierIdle
    /\ ClusterIdle
    /\ ReportIdle

\* lines 157-161: only separators remain; the loop ends and words is returned
ScanToEnd ==
    /\ pc = "scan"
    /\ RunEnd(text, i, "separator") >= Len(text)
    /\ i' = RunEnd(text, i, "separator")
    /\ pc' = "done"
    /\ UNCHANGED <<text, lexicon_words, compounds_with_spaces, words>>
    /\ UNCHANGED classifier_vars
    /\ UNCHANGED cluster_vars
    /\ UNCHANGED report_vars

\* lines 163-273: skip separators, emit one token, move the cursor past it
EmitToken ==
    /\ pc = "scan"
    /\ LET start == RunEnd(text, i, "separator") IN
          /\ start < Len(text)
          /\ LET tok == NextToken(text, start, lexicon_words, compounds_with_spaces)
             IN  /\ words' = Append(words, tok)
                 /\ i' = tok.end
    /\ UNCHANGED <<text, lexicon_words, compounds_with_spaces, pc>>
    /\ UNCHANGED classifier_vars
    /\ UNCHANGED cluster_vars
    /\ UNCHANGED report_vars

NextExtract == ScanToEnd \/ EmitToken

SpecExtract == InitExtract /\ [][NextExtract]_vars

----------------------------------------------------------------------------
(* lexicon_loader.py *)

LexiconEntry(ortho, lemme, cgram, freq, is_lem) ==
    [ortho |-> ortho, lemme |-> lemme, cgram |-> cgram, freq |-> freq, is_lem |-> is_lem]

\* Lexicon.lookup: self.entries.get(word, [])
lookup(word) == IF word \in DOMAIN entries THEN entries[word] ELSE <<>>

\* Lexicon.lookup_case_insensitive: self.entries.get(word.lower(), [])
lookup_case_insensitive(word) == lookup(Lower(word))

\* Lexicon.find_lemma_entry: the first entry of lookup(lemma) with is_lem, as a
\* list of at most one entry (<<>> is None)
RECURSIVE FirstLemmaEntry(_)
FirstLemmaEntry(es) ==
    IF es = <<>> THEN <<>>
    ELSE IF Head(es).is_lem THEN <<Head(es)>>
    ELSE FirstLemmaEntry(Tail(es))

\* find_lemma_entry without the is_lem test: the first entry under the lemma
find_lemma_entry_AnyEntry(lemma) ==
    IF lookup(lemma) = <<>> THEN <<>> ELSE <<lookup(lemma)[1]>>

find_lemma_entry(lemma) == FirstLemmaEntry(lookup(lemma))

----------------------------------------------------------------------------
(* word_classifier.py *)

NormalizeChar(c) ==
    CASE c = LigOe -> <<"o", "e">>
      [] c = LigAe -> <<"a", "e">>
      [] c = LigOE -> <<"O", "e">>
      [] c = LigAE -> <<"A", "e">>
      [] OTHER -> <<c>>

RECURSIVE normalize_ligatures(_)
normalize_ligatures(word) ==
    IF word = <<>> THEN <<>>
    ELSE NormalizeChar(Head(word)) \o normalize_ligatures(Tail(word))

HasLetter(word) == \E k \in 1..Len(word) : IsAlpha(word[k])
\* str.isdigit(): at least one character, all of them digits
IsDigitStr(s) == s # <<>> /\ \A k \in 1..Len(s) : IsDigit(s[k])
\* str.isupper(): at least one cased character, none of them lowercase
IsUpperStr(s) ==
    /\ \E k \in 1..Len(s) : IsUpperChar(s[k])
    /\ \A k \in 1..Len(s) : ~IsLowerChar(s[k])
\* word.replace(' ', '').replace(',', '')
IsNotSpaceOrComma(c) == c # " " /\ c # ","
RemoveSpacesAndCommas(word) == SelectSeq(word, IsNotSpaceOrComma)

\* is_number with the isdigit() test of line 45 left out
is_number_NoDigitTest(word) ==
    IF HasLetter(word) THEN FALSE
    ELSE Len(RemoveSpacesAndCommas(word)) > 0

is_number(word) ==
    IF HasLetter(word) THEN FALSE
    ELSE LET cleaned == RemoveSpacesAndCommas(word)
         IN  IsDigitStr(cleaned) /\ Len(cleaned) > 0

is_acronym(word) == HasLetter(word) /\ IsUpperStr(word) /\ Len(word) > 1

is_proper_noun(word) ==
    IF word = <<>> THEN FALSE
    ELSE /\ IsUpperChar(word[1])
         /\ Len(word) > 1
         /\ \E k \in 2..Len(word) : IsLowerChar(word[k])

UNKNOWN == "Inconnu"
AMBIGUOUS == "Ambigu"
CLASSIFIED == "Classifie"
\* cgram = None
NoCgram == "None"

\* entry is a list of at most one LexiconEntry (<<>> is None)
WordClassification(word, status, cgram, entry, entry_count) ==
    [word |-> word, status |-> status, cgram |-> cgram, entry |-> entry,
     entry_count |-> entry_count]

\* _register_word_variant keeping the spelling as typed for the key
register_word_variant_RawKey(acr, prop, word, original_word) ==
    IF is_acronym(original_word)
    THEN [acronyms |-> acr \cup {original_word}, proper_nouns |-> prop]
    ELSE IF is_proper_noun(original_word)
    THEN [acronyms |-> acr, proper_nouns |-> prop \cup {original_word}]
    ELSE [acronyms |-> acr, proper_nouns |-> prop]

\* the registries after _register_word_variant
register_word_variant(acr, prop, word, original_word) ==
    IF is_acronym(original_word)
    THEN [acronyms |-> acr \cup {word}, proper_nouns |-> prop]
    ELSE IF is_proper_noun(original_word)
    THEN [acronyms |-> acr, proper_nouns |-> prop \cup {word}]
    ELSE [acronyms |-> acr, proper_nouns |-> prop]

\* _resolve_classification with the two registry tests in the other order
resolve_classification_AcronymFirst(acr, prop, word, original_word) ==
    LET word_lower == Lower(word) IN
    IF word_lower \in acr THEN "NOM:acro"
    ELSE IF word_lower \in prop THEN "NOM:prop"
    ELSE IF is_acronym(original_word) THEN "NOM:acro"
    ELSE IF is_proper_noun(original_word) THEN "NOM:prop"
    ELSE NoCgram

resolve_classification(acr, prop, word, original_word) ==
    LET word_lower == Lower(word) IN
    IF word_lower \in prop THEN "NOM:prop"
    ELSE IF word_lower \in acr THEN "NOM:acro"
    ELSE IF is_acronym(original_word) THEN "NOM:acro"
    ELSE IF is_proper_noun(original_word) THEN "NOM:prop"
    ELSE NoCgram

\* the last entry of the highest frequency instead of the first
disambiguate_by_frequency_LastOfHighest(es) ==
    es[CHOOSE k \in 1..Len(es) :
          /\ \A l \in 1..Len(es) : es[l].freq <= es[k].freq
          /\ \A l \in (k + 1)..Len(es) : es[l].freq < es[k].freq]

\* max(entries, key=freq): the first entry of the highest frequency
disambiguate_by_frequency(es) ==
    es[CHOOSE k \in 1..Len(es) :
          /\ \A l \in 1..Len(es) : es[l].freq <= es[k].freq
          /\ \A l \in 1..(k - 1) : es[l].freq < es[k].freq]

\* _classify_single_entry giving up when the lemma has no is_lem entry
classify_single_entry_UnknownWithoutLemma(word, entry, max_depth) ==
    IF max_depth <= 0
    THEN WordClassification(word, UNKNOWN, NoCgram, <<>>, 1)
    ELSE IF entry.is_lem
    THEN WordClassification(word, CLASSIFIED, entry.cgram, <<entry>>, 1)
    ELSE LET lemma_entry == find_lemma_entry(entry.lemme) IN
         IF lemma_entry = <<>>
         THEN WordClassification(word, UNKNOWN, NoCgram, <<>>, 1)
         ELSE WordClassification(word, CLASSIFIED, lemma_entry[1].cgram, lemma_entry, 1)

classify_single_entry(word, entry, max_depth) ==
    IF max_depth <= 0
    THEN WordClassification(word, UNKNOWN, NoCgram, <<>>, 1)
    ELSE IF entry.is_lem
    THEN WordClassification(word, CLASSIFIED, entry.cgram, <<entry>>, 1)
    ELSE LET lemma_entry == find_lemma_entry(entry.lemme) IN
         IF lemma_entry = <<>>
         THEN WordClassification(word, CLASSIFIED, entry.cgram, <<entry>>, 1)
         ELSE WordClassification(word, CLASSIFIED, lemma_entry[1].cgram, lemma_entry, 1)

default_max_depth == 10
custom_freq == 1000

\* the overlay consulted only for forms the base dictionary lacks
HasCustomEntry_OnlyOutOfDictionary(key) ==
    /\ custom_entries.present /\ key \in DOMAIN custom_entries.map
    /\ lookup(key) = <<>>

HasCustomEntry(key) == custom_entries.present /\ key \in DOMAIN custom_entries.map

\* classify_word from registries (acr, prop): the result and the registries after
classify_word(acr, prop, word, case_sensitive, by_frequency) ==
    LET unchanged(r) == [result |-> r, acronyms |-> acr, proper_nouns |-> prop]
        word_normalized == normalize_ligatures(word)
        found == IF case_sensitive THEN lookup(word_normalized)
                 ELSE lookup_case_insensitive(word_normalized)
        entry_count == Len(found)
    IN  IF is_number(word)
        THEN unchanged(WordClassification(word, CLASSIFIED, "NUM", <<>>, 0))
        ELSE IF HasCustomEntry(Lower(word_normalized))
        THEN LET custom_entry == custom_entries.map[Lower(word_normalized)]
                 fake_entry == LexiconEntry(custom_entry.ortho, custom_entry.lemme,
                                            custom_entry.cgram, custom_freq, TRUE)
             IN  unchanged(WordClassification(word, CLASSIFIED, custom_entry.cgram,
                                              <<fake_entry>>, 1))
        ELSE IF entry_count = 0
        THEN LET reg == register_word_variant(acr, prop, Lower(word), word)
                 special_cgram == resolve_classification(reg.acronyms, reg.proper_nouns,
                                                         Lower(word), word)
             IN  [result |-> IF special_cgram # NoCgram
                             THEN WordClassification(word, CLASSIFIED, special_cgram, <<>>, 0)
                             ELSE WordClassification(word, UNKNOWN, NoCgram, <<>>, 0),
                  acronyms |-> reg.acronyms, proper_nouns |-> reg.proper_nouns]
        ELSE IF entry_count > 1
        THEN IF by_frequency
             THEN unchanged(classify_single_entry(word, disambiguate_by_frequency(found),
                                                  default_max_depth))
             ELSE unchanged(WordClassification(word, AMBIGUOUS, NoCgram, <<>>, entry_count))
        ELSE unchanged(classify_single_entry(word, found[1], default_max_depth))

\* the first pass left out: the words are classified in list order only
RegisterPass_Skipped(acr, prop, ws, case_sensitive) ==
    [acronyms |-> acr, proper_nouns |-> prop]

\* classify_words, first pass: the registries after the words ws
RECURSIVE RegisterPass(_, _, _, _)
RegisterPass(acr, prop, ws, case_sensitive) ==
    IF ws = <<>> THEN [acronyms |-> acr, proper_nouns |-> prop]
    ELSE LET word == Head(ws)
             word_lower == IF ~case_sensitive THEN Lower(word) ELSE word
             found == IF ~case_sensitive THEN lookup_case_insensitive(word)
                      ELSE lookup(word)
             reg == IF Len(found) = 0
                    THEN register_word_variant(acr, prop, word_lower, word)
                    ELSE [acronyms |-> acr, proper_nouns |-> prop]
         IN  RegisterPass(reg.acronyms, reg.proper_nouns, Tail(ws), case_sensitive)

\* classify_words, second pass: the classifications and the registries after ws
RECURSIVE ClassifyPass(_, _, _, _, _)
ClassifyPass(acr, prop, ws, case_sensitive, classifications) ==
    IF ws = <<>>
    THEN [result |-> classifications, acronyms |-> acr, proper_nouns |-> prop]
    ELSE LET word == Head(ws)
             word_key == IF case_sensitive THEN word ELSE Lower(word)
         IN  IF word_key \in DOMAIN classifications
             THEN ClassifyPass(acr, prop, Tail(ws), case_sensitive, classifications)
             ELSE LET c == classify_word(acr, prop, word, case_sensitive, FALSE)
                  IN  ClassifyPass(c.acronyms, c.proper_nouns, Tail(ws), case_sensitive,
                                   [k \in DOMAIN classifications \cup {word_key} |->
                                       IF k = word_key THEN c.result
                                       ELSE classifications[k]])

\* classify_words emptying the registries before its first pass
classify_words_ResetsRegistries(acr, prop, ws, case_sensitive) ==
    LET reg == RegisterPass({}, {}, ws, case_sensitive)
    IN  ClassifyPass(reg.acronyms, reg.proper_nouns, ws, case_sensitive, <<>>)

classify_words(acr, prop, ws, case_sensitive) ==
    LET reg == RegisterPass(acr, prop, ws, case_sensitive)
    IN  ClassifyPass(reg.acronyms, reg.proper_nouns, ws, case_sensitive, <<>>)

----------------------------------------------------------------------------
(* Inputs of the classifier *)

MaxBatch == 2

W_ab == <<"a", "b">>
W_AB == <<"A", "B">>
W_Ab == <<"A", "b">>
W_A1 == <<"A", "1">>
W_a1 == <<"a", "1">>
W_1A == <<"1", "A">>
W_A == <<"A">>
W_a == <<"a">>
W_b == <<"b">>
W_11 == <<"1", "1">>
W_1c1 == <<"1", ",", "1">>
W_1s1 == <<"1", " ", "1">>
W_1q1 == <<"1", "'", "1">>
W_comma == <<",">>
W_OEb == <<LigOE, "b">>
W_oeb == <<"o", "e", "b">>

ClassifierWords ==
    {W_ab, W_AB, W_Ab, W_A1, W_1A, W_A, W_a, W_b, W_11, W_1c1, W_1s1, W_1q1,
     W_comma, W_OEb}

BatchWords == {W_AB, W_Ab, W_ab}
Batches == UNION {[1..n -> BatchWords] : n \in 0..MaxBatch}

CustomEntry(ortho, lemme, cgram) == [ortho |-> ortho, lemme |-> lemme, cgram |-> cgram]
NoCustomEntries == [present |-> FALSE, map |-> <<>>]

\* lowercase forms: a lemma, an ambiguous form of frequencies 0.5, 3.2, 1.1 (in
\* tenths), an inflected form, a numeric form; an overlay on two forms
LexiconLower ==
    [entries |->
        (W_ab :> <<LexiconEntry(W_ab, W_ab, "NOM", 100, TRUE)>>)
        @@ (W_a :> <<LexiconEntry(W_a, W_b, "VER", 5, FALSE),
                     LexiconEntry(W_a, W_a, "PRE", 32, TRUE),
                     LexiconEntry(W_a, W_a, "NOM", 11, TRUE)>>)
        @@ (W_b :> <<LexiconEntry(W_b, W_ab, "VER", 50, FALSE)>>)
        @@ (W_11 :> <<LexiconEntry(W_11, W_11, "ADJ:num", 10, TRUE)>>)
        @@ (W_oeb :> <<LexiconEntry(W_oeb, W_oeb, "NOM", 20, TRUE)>>),
     custom |->
        [present |-> TRUE,
         map |-> (W_1c1 :> CustomEntry(W_1c1, W_1c1, "ETRANGER"))
                 @@ (W_a1 :> CustomEntry(W_A1, W_a1, "ACRONYME"))]]

\* a form stored with an uppercase letter, an inflected form whose lemma is
\* missing; no overlay
LexiconUpper ==
    [entries |->
        (W_Ab :> <<LexiconEntry(W_Ab, W_Ab, "NOM", 30, TRUE)>>)
        @@ (W_b :> <<LexiconEntry(W_b, W_a, "VER", 50, FALSE)>>),
     custom |-> NoCustomEntries]

W_1a == <<"1", "a">>
\* a dictionary that holds no casing of ab; the overlay covers the other
\* uppercase forms
LexiconBare ==
    [entries |-> (W_a :> <<LexiconEntry(W_a, W_a, "NOM", 11, TRUE)>>),
     custom |->
        [present |-> TRUE,
         map |-> (W_a1 :> CustomEntry(W_A1, W_a1, "ACRONYME"))
                 @@ (W_1a :> CustomEntry(W_1A, W_1a, "ACRONYME"))
                 @@ (W_oeb :> CustomEntry(W_oeb, W_oeb, "NOM"))]]

LexiconChoices == {LexiconLower, LexiconUpper, LexiconBare}

----------------------------------------------------------------------------
(* The classifier as a state machine: one WordClassifier over one Lexicon *)

ExtractIdle ==
    /\ text = <<>>
    /\ lexicon_words = NoneSet
    /\ compounds_with_spaces = NoneSet
    /\ i = 0
    /\ words = <<>>
    /\ pc = "idle"

\* Lexicon(path), then WordClassifier(lexicon)
InitClassify ==
    /\ ExtractIdle
    /\ ClusterIdle
    /\ ReportIdle
    /\ \E lexicon \in LexiconChoices :
          /\ entries = lexicon.entries
          /\ custom_entries = lexicon.custom
    /\ acronyms = {}
    /\ proper_nouns = {}
    /\ last = NoCall

ClassifyWord(word, case_sensitive, by_frequency) ==
    LET c == classify_word(acronyms, proper_nouns, word, case_sensitive, by_frequency)
    IN  /\ acronyms' = c.acronyms
        /\ proper_nouns' = c.proper_nouns
        /\ last' = [op |-> "classify_word", word |-> word,
                    case_sensitive |-> case_sensitive,
                    disambiguate_by_frequency |-> by_frequency,
                    acronyms_before |-> acronyms, proper_nouns_before |-> proper_nouns,
                    result |-> c.result]
        /\ UNCHANGED <<entries, custom_entries>>
        /\ UNCHANGED extract_vars
        /\ UNCHANGED cluster_vars
        /\ UNCHANGED report_vars

ClassifyWords(ws, case_sensitive) ==
    LET c == classify_words(acronyms, proper_nouns, ws, case_sensitive)
    IN  /\ acronyms' = c.acronyms
        /\ proper_nouns' = c.proper_nouns
        /\ last' = [op |-> "classify_words", words |-> ws,
                    case_sensitive |-> case_sensitive,
                    acronyms_before |-> acronyms, proper_nouns_before |-> proper_nouns,
                    result |-> c.result]
        /\ UNCHANGED <<entries, custom_entries>>
        /\ UNCHANGED extract_vars
        /\ UNCHANGED cluster_vars
        /\ UNCHANGED report_vars

NextClassify ==
    \/ \E word \in ClassifierWords, case_sensitive \in BOOLEAN, by_frequency \in BOOLEAN :
          ClassifyWord(word, case_sensitive, by_frequency)
    \/ \E ws \in Batches, case_sensitive \in BOOLEAN :
          ClassifyWords(ws, case_sensitive)

SpecClassify == InitClassify /\ [][NextClassify]_vars

----------------------------------------------------------------------------
(* Single calls of classify_word over dictionaries that differ in the order *)
(* and the frequencies of an ambiguous form's entries, in their lemma       *)
(* references and in the overlay                                            *)

W_oeB == <<LigOe, "b">>

\* corpus frequencies 0.5, 1.1 and 3.2, in tenths
Frequencies == {5, 11, 32}

\* an ambiguous form "a" with the frequencies f1, f2, f3 in file order, whose
\* first entry names a lemma without is_lem entry; "b", inflected form of "a";
\* a lemma "ab"; "A", inflected form of a lemma the file lacks
ResolveEntries(f1, f2, f3) ==
    (W_a :> <<LexiconEntry(W_a, W_b, "VER", f1, FALSE),
              LexiconEntry(W_a, W_a, "PRE", f2, TRUE),
              LexiconEntry(W_a, W_a, "NOM", f3, TRUE)>>)
    @@ (W_b :> <<LexiconEntry(W_b, W_a, "VER", 50, FALSE)>>)
    @@ (W_ab :> <<LexiconEntry(W_ab, W_ab, "NOM", 100, TRUE)>>)
    @@ (W_A :> <<LexiconEntry(W_A, W_AB, "ADJ", 20, FALSE)>>)
    @@ (W_oeb :> <<LexiconEntry(W_oeb, W_oeb, "NOM", 20, TRUE)>>)

\* malformed data: inflected entries whose lemmas point at each other, and
\* one that points at itself
CyclicEntries ==
    (W_a :> <<LexiconEntry(W_a, W_b, "VER", 5, FALSE)>>)
    @@ (W_b :> <<LexiconEntry(W_b, W_a, "NOM", 11, FALSE)>>)
    @@ (W_ab :> <<LexiconEntry(W_ab, W_ab, "ADV", 32, FALSE)>>)

\* an overlay on an ambiguous form, on an inflected form, on a form reached
\* through ligature normalization, on a form the dictionary lacks, and under
\* a key with a ligature
ResolveOverlay ==
    [present |-> TRUE,
     map |-> (W_a :> CustomEntry(W_a, W_ab, "ETRANGER"))
             @@ (W_b :> CustomEntry(W_b, W_b, "NOM:prop"))
             @@ (W_oeb :> CustomEntry(W_OEb, W_oeb, "LATIN"))
             @@ (W_a1 :> CustomEntry(W_A1, W_a1, "ACRONYME"))
             @@ (W_oeB :> CustomEntry(W_oeB, W_oeB, "LIGATURE"))]

ResolveLexicons ==
    {ResolveEntries(f1, f2, f3) : f1, f2, f3 \in Frequencies} \cup {CyclicEntries}
ResolveWords == {W_a, W_A, W_b, W_ab, W_Ab, W_A1, W_OEb, W_oeB}

InitResolve ==
    /\ ExtractIdle
    /\ ClusterIdle
    /\ ReportIdle
    /\ entries \in ResolveLexicons
    /\ custom_entries \in {NoCustomEntries, ResolveOverlay}
    /\ acronyms = {}
    /\ proper_nouns = {}
    /\ last = NoCall

NextResolve ==
    \E word \in ResolveWords, case_sensitive \in BOOLEAN, by_frequency \in BOOLEAN :
        ClassifyWord(word, case_sensitive, by_frequency)

SpecResolve == InitResolve /\ [][NextResolve]_vars

----------------------------------------------------------------------------
(* generate_repetitions_report.py: find_repetition_clusters *)

MaxOccurrences == 5
MaxTotalOccurrences == 120

\* max(2, min_occurrences) with 1 in place of 2
min_cluster_size_AtLeastOne(asked) == IF asked > 1 THEN asked ELSE 1

\* line 31: min_cluster_size = max(2, min_occurrences)
min_cluster_size(asked) == IF asked > 2 THEN asked ELSE 2

RECURSIVE Pow2(_)
Pow2(k) == IF k = 0 THEN 1 ELSE 2 * Pow2(k - 1)
\* 2^k modulo m
RECURSIVE PowMod2(_, _)
PowMod2(k, m) == IF k = 0 THEN 1 % m ELSE (2 * PowMod2(k - 1, m)) % m
\* n without its factors 2
RECURSIVE OddPart(_)
OddPart(n) == IF n % 2 = 0 THEN OddPart(n \div 2) ELSE n
\* the exponent e with 2^e <= x < 2^(e+1), for x >= 1
FloorLog2(x) == CHOOSE e \in 0..30 : Pow2(e) <= x /\ x < Pow2(e + 1)

\* the ratio taken the wrong way round: total_occurrences / 23, in exact
\* arithmetic
AdaptiveMaxDistance_InvertedRatio(base, n) ==
    IF 5 * n <= 23 THEN (11 * base) \div 10
    ELSE IF n >= 115 THEN (55 * base) \div 2
    ELSE (11 * base * n) \div 46

\* lines 50-55, int(max_distance * 5.5 * max(0.2, min(5.0, 23 / n))), computed
\* as IEEE-754 doubles compute it, for base >= 0 and n >= 1. max_distance * 5.5
\* is exact. The factor 5.0 (n <= 4) is exact; the factor 0.2 (n >= 115) is the
\* double next above 1/5, so the product truncates to floor(1.1 * base).
\* Between, q = 23/n is rounded to 53 bits: with m the odd part of n and
\* 2^eq <= 23/m < 2^(eq+1), the bits dropped are r/m of a unit in the last
\* place, r = 23 * 2^(52-eq) mod m. The exact value X = 253 * base / (2 n) is
\* missed by the truncation only when X is an integer, q was rounded down
\* (0 < 2r < m) and the product of 5.5 * base by q rounds to the double below
\* X, which it does when 2 * X * r * 2^eq > 23 * 2^eX (2^eX <= X < 2^(eX+1)):
\* then the result is X - 1.
AdaptiveMaxDistance(base, n) ==
    IF n <= 4 THEN (55 * base) \div 2
    ELSE IF n >= 115 THEN (11 * base) \div 10
    ELSE IF (253 * base) % (2 * n) # 0 \/ base = 0 THEN (253 * base) \div (2 * n)
    ELSE LET X == (253 * base) \div (2 * n)
             m == OddPart(n)
             \* eq + 3, so that it is a natural number for every m <= 114
             s == CHOOSE j \in 0..7 : Pow2(j) * m <= 23 * 8 /\ 23 * 8 < Pow2(j + 1) * m
             r == (23 * PowMod2(52 - (s - 3), m)) % m
         IN  IF r = 0 \/ 2 * r > m THEN X
             ELSE IF 2 * X * r * Pow2(s) < 23 * Pow2(FloorLog2(X)) * 8 THEN X
             ELSE X - 1

\* sorted(positions, key=lambda x: x[1]): stable, by start
RECURSIVE InsertByStart(_, _)
InsertByStart(sorted, p) ==
    IF sorted = <<>> THEN <<p>>
    ELSE IF p.start < Head(sorted).start THEN <<p>> \o sorted
    ELSE <<Head(sorted)>> \o InsertByStart(Tail(sorted), p)
\* the list taken in the order given
SortedByStart_Unsorted(ps) == ps

RECURSIVE SortedByStart(_)
SortedByStart(ps) ==
    IF ps = <<>> THEN <<>>
    ELSE InsertByStart(SortedByStart(SubSeq(ps, 1, Len(ps) - 1)), ps[Len(ps)])

----------------------------------------------------------------------------
(* Inputs of find_repetition_clusters *)

\* the occurrences of a three-letter word, the first at offset 0, each one
\* starting gaps[k] characters after the end of the one before
OccurrenceLen == 3
RECURSIVE OccurrencesFrom(_, _)
OccurrencesFrom(start, gaps) ==
    <<Token(<<"m", "o", "t">>, start, start + OccurrenceLen)>>
    \o (IF gaps = <<>> THEN <<>>
        ELSE OccurrencesFrom(start + OccurrenceLen + Head(gaps), Tail(gaps)))
Reverse(s) == [k \in 1..Len(s) |-> s[Len(s) + 1 - k]]

Gaps == {6, 252, 253, 297, 476}
\* spans that overlap or nest, two of them starting at the same offset
OverlappingSpans ==
    {Token(<<"m", "o", "t">>, 0, 3), Token(<<"m", "o", "t">>, 0, 600),
     Token(<<"m", "o", "t">>, 2, 7), Token(<<"m", "o", "t">>, 5, 8),
     Token(<<"m", "o", "t">>, 500, 503)}
MaxOverlapping == 3
OverlappingLists ==
    {ps \in UNION {[1..n -> OverlappingSpans] : n \in 2..MaxOverlapping} :
        \A a, b \in 1..Len(ps) : ps[a] = ps[b] => a = b}
PositionLists ==
    {<<>>} \cup
    UNION {{OccurrencesFrom(0, g), Reverse(OccurrencesFrom(0, g))} :
              g \in UNION {[1..n -> Gaps] : n \in 0..(MaxOccurrences - 1)}}
    \cup OverlappingLists
MaxDistances == {10, 200}
MinOccurrences == 0..3

----------------------------------------------------------------------------
(* find_repetition_clusters as a state machine: one action per loop turn *)

InitClusters ==
    /\ ExtractIdle
    /\ ClassifierIdle
    /\ ReportIdle
    /\ positions \in PositionLists
    /\ max_distance \in MaxDistances
    /\ min_occurrences \in MinOccurrences
    /\ total_occurrences = 0
    /\ adaptive_max_distance = 0
    /\ sorted_positions = <<>>
    /\ clusters = <<>>
    /\ current_cluster = <<>>
    /\ runs = <<>>
    /\ idx = 0
    /\ cpc = "call"

\* lines 31-34: too few occurrences, return []
ReturnEmpty ==
    /\ cpc = "call"
    /\ Len(positions) < min_cluster_size(min_occurrences)
    /\ cpc' = "done"
    /\ UNCHANGED <<positions, max_distance, min_occurrences, total_occurrences,
                   adaptive_max_distance, sorted_positions, clusters,
                   current_cluster, runs, idx>>
    /\ UNCHANGED <<extract_vars, classifier_vars, report_vars>>

\* lines 41-59: the threshold, the sort, the first cluster
StartClustering ==
    /\ cpc = "call"
    /\ Len(positions) >= min_cluster_size(min_occurrences)
    /\ total_occurrences' = Len(positions)
    /\ adaptive_max_distance' = AdaptiveMaxDistance(max_distance, Len(positions))
    /\ sorted_positions' = SortedByStart(positions)
    /\ clusters' = <<>>
    /\ runs' = <<>>
    /\ current_cluster' = <<SortedByStart(positions)[1]>>
    /\ idx' = 1
    /\ cpc' = "loop"
    /\ UNCHANGED <<positions, max_distance, min_occurrences>>
    /\ UNCHANGED <<extract_vars, classifier_vars, report_vars>>

\* the test of line 66 with < in place of <=
SameCluster_StrictlyBelow(prev_pos, curr_pos, threshold) ==
    curr_pos - prev_pos < threshold

\* line 66: curr_pos - prev_pos <= adaptive_max_distance
SameCluster(prev_pos, curr_pos, threshold) == curr_pos - prev_pos <= threshold

\* lines 61-74, one turn: sorted_positions[i] of the source is
\* sorted_positions[idx + 1] here
LoopStep ==
    /\ cpc = "loop"
    /\ idx < Len(sorted_positions)
    /\ LET prev_pos == sorted_positions[idx].end
           curr_pos == sorted_positions[idx + 1].start
       IN  IF SameCluster(prev_pos, curr_pos, adaptive_max_distance)
           THEN /\ current_cluster' = Append(current_cluster, sorted_positions[idx + 1])
                /\ UNCHANGED <<clusters, runs>>
           ELSE /\ clusters' = IF Len(current_cluster) >= min_cluster_size(min_occurrences)
                               THEN Append(clusters, current_cluster)
                               ELSE clusters
                /\ runs' = Append(runs, current_cluster)
                /\ current_cluster' = <<sorted_positions[idx + 1]>>
    /\ idx' = idx + 1
    /\ UNCHANGED <<positions, max_distance, min_occurrences, total_occurrences,
                   adaptive_max_distance, sorted_positions, cpc>>
    /\ UNCHANGED <<extract_vars, classifier_vars, report_vars>>

\* lines 76-80: the last cluster, return clusters
CloseLastCluster ==
    /\ cpc = "loop"
    /\ idx = Len(sorted_positions)
    /\ clusters' = IF Len(current_cluster) >= min_cluster_size(min_occurrences)
                   THEN Append(clusters, current_cluster)
                   ELSE clusters
    /\ runs' = Append(runs, current_cluster)
    /\ cpc' = "done"
    /\ UNCHANGED <<positions, max_distance, min_occurrences, total_occurrences,
                   adaptive_max_distance, sorted_positions, current_cluster, idx>>
    /\ UNCHANGED <<extract_vars, classifier_vars, report_vars>>

NextClusters == ReturnEmpty \/ StartClustering \/ LoopStep \/ CloseLastCluster

SpecClusters == InitClusters /\ [][NextClusters]_vars

----------------------------------------------------------------------------
(* The threshold of lines 41-55 alone, for lists of 2, 3, ... occurrences *)

SweepDistances == {0, 1, 10, 18, 50, 100, 200}

InitThreshold ==
    /\ ExtractIdle
    /\ ClassifierIdle
    /\ ReportIdle
    /\ positions = <<>>
    /\ max_distance \in SweepDistances
    /\ min_occurrences = 2
    /\ total_occurrences = 2
    /\ adaptive_max_distance = AdaptiveMaxDistance(max_distance, 2)
    /\ sorted_positions = <<>>
    /\ clusters = <<>>
    /\ current_cluster = <<>>
    /\ runs = <<>>
    /\ idx = 0
    /\ cpc = "sweep"

\* the same base distance, one more occurrence
OneMoreOccurrence ==
    /\ cpc = "sweep"
    /\ total_occurrences < MaxTotalOccurrences
    /\ total_occurrences' = total_occurrences + 1
    /\ adaptive_max_distance' = AdaptiveMaxDistance(max_distance, total_occurrences + 1)
    /\ UNCHANGED <<positions, max_distance, min_occurrences, sorted_positions,
                   clusters, current_cluster, runs, idx, cpc>>
    /\ UNCHANGED <<extract_vars, classifier_vars, report_vars>>

NextThreshold == OneMoreOccurrence

SpecThreshold == InitThreshold /\ [][NextThreshold]_vars

----------------------------------------------------------------------------
(* Vocabulary of the tokenizer claims *)

TokenIndexes == 1..Len(words)
IsContent(c) == is_latin_letter(c) \/ IsDigit(c)
AllDigits(s) == s # <<>> /\ \A k \in 1..Len(s) : IsDigit(s[k])
AllLetters(s) == s # <<>> /\ \A k \in 1..Len(s) : is_latin_letter(s[k])
TokensCovering(p) == {k \in TokenIndexes : words[k].start <= p /\ p < words[k].end}
LetterLed(k) == is_latin_letter(At(text, words[k].start))
DigitLed(k) == IsDigit(At(text, words[k].start))

\* the maximal run of digits, spaces and commas from offset s, and its end
NumberRunEnd(s) == RunEnd(text, s, "numberrun")
NumberRun(s) == Slice(text, s, NumberRunEnd(s))

\* the grammar ^\d+(?:\s\d+)*(?:,\d+)?$ stated on the string itself: digits at
\* both ends, only digits, whitespace and commas, no two separators in a row,
\* and nothing but digits after a comma
IsGroupedNumber(s) ==
    /\ s # <<>>
    /\ IsDigit(s[1]) /\ IsDigit(s[Len(s)])
    /\ \A k \in 1..Len(s) : IsDigit(s[k]) \/ IsSpace(s[k]) \/ s[k] = ","
    /\ \A k \in 1..(Len(s) - 1) : ~IsDigit(s[k]) => IsDigit(s[k + 1])
    /\ \A k \in 1..Len(s) : s[k] = "," => \A l \in (k + 1)..Len(s) : IsDigit(s[l])

\* the maximal runs from offset s that the letter branch looks at
WordRunEnd(s) == RunEnd(text, s, "word")
LetterRunEnd(s) == RunEnd(text, s, "letter")
AlnumRunEnd(s) == RunEnd(text, s, "alnum")

\* the word counts n in 2..5 whose n word-groups at offset s form a known form
GroupsAt(s, n) == ReadWordGroups(text, s, <<>>, n)
MatchingCounts(s) ==
    {n \in 2..5 : /\ Truthy(compounds_with_spaces)
                  /\ Len(GroupsAt(s, n).temp_words) = n
                  /\ Lower(JoinSpace(GroupsAt(s, n).temp_words))
                        \in compounds_with_spaces.elems}
SetMax(S) == CHOOSE x \in S : \A y \in S : y <= x

----------------------------------------------------------------------------
(* C1: the tokens' spans are pairwise non-overlapping and in strictly      *)
(* increasing startOffset order, and every Latin-letter or digit character *)
(* the scan has passed lies inside exactly one token's span (at the end of *)
(* the scan: every such character of the text).                            *)
C1_SpansDisjointOrderedCovering ==
    /\ \A k \in TokenIndexes :
          0 <= words[k].start /\ words[k].start < words[k].end
          /\ words[k].end <= Len(text)
    /\ \A k, l \in TokenIndexes :
          k < l => /\ words[k].end <= words[l].start
                   /\ words[k].start < words[l].start
    /\ pc = "done" => i = Len(text)
    /\ \A p \in 0..(Len(text) - 1) :
          (p < i /\ IsContent(At(text, p))) => Cardinality(TokensCovering(p)) = 1

C1_Witness ==
    /\ pc = "done"
    /\ Len(words) >= 2
    /\ \E k \in TokenIndexes : DigitLed(k)
    /\ \E k \in TokenIndexes : LetterLed(k)
    /\ \E p \in 0..(Len(text) - 1) : TokensCovering(p) = {}

(* C2: every token (surface, start, end) satisfies text[start:end] ==      *)
(* surface, hence end - start == len(surface), for plain words, numeric    *)
(* tokens and multi-word tokens alike.                                     *)
C2_SurfaceIsTextSlice ==
    \A k \in TokenIndexes :
        /\ Slice(text, words[k].start, words[k].end) = words[k].word
        /\ words[k].end - words[k].start = Len(words[k].word)

(* C3: at a letter position where several known multi-word forms of 2 to 5 *)
(* words match the word-groups that follow, the token emitted there is the *)
(* form with the greatest matching word count, ending where its last group *)
(* ends, and never a shorter matching form.                                *)
C3_LongestMultiWordFormWins ==
    \A k \in TokenIndexes :
        (LetterLed(k) /\ MatchingCounts(words[k].start) # {}) =>
            LET best == GroupsAt(words[k].start, SetMax(MatchingCounts(words[k].start)))
            IN  /\ words[k].word = JoinSpace(best.temp_words)
                /\ words[k].end = best.temp_pos
                /\ \A n \in MatchingCounts(words[k].start) :
                      n < SetMax(MatchingCounts(words[k].start)) =>
                          words[k].word # JoinSpace(GroupsAt(words[k].start, n).temp_words)

C3_Witness ==
    \E k \in TokenIndexes :
        /\ LetterLed(k)
        /\ Cardinality(MatchingCounts(words[k].start)) >= 2
        /\ Len(words[k].word) = 5

----------------------------------------------------------------------------
\* where the letter branch applies: a letter-led token no multi-word form matched
NoFormMatched(k) == LetterLed(k) /\ MatchingCounts(words[k].start) = {}
RunInDictionary(k) ==
    /\ lexicon_words.given
    /\ Lower(Slice(text, words[k].start, WordRunEnd(words[k].start)))
          \in lexicon_words.elems
IsWholeRun(k) ==
    /\ words[k].word = Slice(text, words[k].start, WordRunEnd(words[k].start))
    /\ words[k].end = WordRunEnd(words[k].start)
IsLeadingLetterRun(k) ==
    /\ words[k].word = Slice(text, words[k].start, LetterRunEnd(words[k].start))
    /\ words[k].end = LetterRunEnd(words[k].start)
IsAlnumRun(k) ==
    /\ words[k].word = Slice(text, words[k].start, AlnumRunEnd(words[k].start))
    /\ words[k].end = AlnumRunEnd(words[k].start)
\* the alphanumeric-acronym case: an uppercase letter in the leading letter run,
\* and a digit right after that run
UpperRunBeforeDigit(k) ==
    LET e == LetterRunEnd(words[k].start)
    IN  /\ \E p \in words[k].start..(e - 1) : IsUpperChar(At(text, p))
        /\ e < Len(text) /\ IsDigit(At(text, e))

(* C4 as stated: where no multi-word form matches, the maximal run of       *)
(* letters, hyphens and apostrophes is one token when a dictionary word set *)
(* is provided and holds the lowercased run; otherwise only the leading     *)
(* letter run is emitted.                                                   *)
C4_Original_RunOrLeadingLetters ==
    \A k \in TokenIndexes :
        NoFormMatched(k) =>
            IF RunInDictionary(k) THEN IsWholeRun(k) ELSE IsLeadingLetterRun(k)

(* C4 amended: as above, except that a leading letter run holding an        *)
(* uppercase letter and directly followed by a digit is emitted extended    *)
(* over the following letters and digits.                                   *)
C4_RunOrLeadingLettersOrAcronym ==
    \A k \in TokenIndexes :
        NoFormMatched(k) =>
            IF RunInDictionary(k) THEN IsWholeRun(k)
            ELSE IF UpperRunBeforeDigit(k) THEN IsAlnumRun(k)
            ELSE IsLeadingLetterRun(k)

C4_Witness ==
    /\ \E k \in TokenIndexes :
          /\ NoFormMatched(k) /\ RunInDictionary(k)
          /\ Len(words[k].word) = 3 /\ HasUpper(words[k].word)
    /\ \E k \in TokenIndexes :
          /\ NoFormMatched(k) /\ ~RunInDictionary(k) /\ ~UpperRunBeforeDigit(k)
          /\ WordRunEnd(words[k].start) > LetterRunEnd(words[k].start)

----------------------------------------------------------------------------
(* C5: when the scan reaches a digit and the maximal run of digits, spaces  *)
(* and commas that follows, trimmed, matches the grouped-number grammar,    *)
(* exactly one token is emitted for that run: its surface form is the       *)
(* trimmed run, and the next token starts after the run.                    *)
C5_GroupedNumberIsOneToken ==
    \A k \in TokenIndexes :
        (DigitLed(k) /\ IsGroupedNumber(Strip(NumberRun(words[k].start)))) =>
            /\ words[k].word = Strip(NumberRun(words[k].start))
            /\ words[k].end = NumberRunEnd(words[k].start)
            /\ \A l \in TokenIndexes :
                  l > k => words[l].start >= NumberRunEnd(words[k].start)

C5_Witness ==
    \E k \in TokenIndexes :
        /\ DigitLed(k)
        /\ IsGroupedNumber(Strip(NumberRun(words[k].start)))
        /\ \E p \in 1..Len(words[k].word) : words[k].word[p] = ","
        /\ words[k].end - words[k].start > Len(words[k].word)
        /\ k < Len(words)

\* a digit-led token whose run of digits, spaces and commas fails the grammar
RunRejected(k) ==
    DigitLed(k) /\ ~IsGroupedNumber(Strip(NumberRun(words[k].start)))

(* C6 as stated: when a digit-led run fails the grammar, every token        *)
(* emitted from inside that run consists of digits only.                    *)
C6_Original_OnlyDigitRunsInside ==
    \A k \in TokenIndexes :
        RunRejected(k) =>
            \A l \in TokenIndexes :
                (words[k].start <= words[l].start
                 /\ words[l].start < NumberRunEnd(words[k].start))
                    => AllDigits(words[l].word)

(* C6 amended: when a digit-led run fails the grammar, the token emitted at *)
(* its start is the leading maximal digit run, digits only, and the scan    *)
(* resumes right after it; a later token from inside the run is a digit run *)
(* or a grouped number made of the rest of the run.                         *)
C6_LeadingDigitRunThenRescan ==
    \A k \in TokenIndexes :
        RunRejected(k) =>
            /\ AllDigits(words[k].word)
            /\ words[k].word = Slice(text, words[k].start, RunEnd(text, words[k].start, "digit"))
            /\ words[k].end = RunEnd(text, words[k].start, "digit")
            /\ \A l \in TokenIndexes :
                  (l > k /\ words[l].start < NumberRunEnd(words[k].start)) =>
                      \/ AllDigits(words[l].word)
                      \/ /\ IsGroupedNumber(words[l].word)
                         /\ words[l].word = Strip(NumberRun(words[l].start))
                         /\ words[l].end = NumberRunEnd(words[k].start)

C6_Witness ==
    \E k, l \in TokenIndexes :
        /\ RunRejected(k)
        /\ l > k /\ words[l].start < NumberRunEnd(words[k].start)
        /\ ~AllDigits(words[l].word)

----------------------------------------------------------------------------
(* C7: with no dictionary word set and no multi-word set, the scan stays    *)
(* inside the text (no read past its end) and every letter-led token is a   *)
(* maximal run of Latin letters, except that a letter run holding an        *)
(* uppercase letter and directly followed by a digit is extended over the   *)
(* following letters and digits.                                            *)
C7_NoDictionaryLetterRuns ==
    (~lexicon_words.given /\ ~compounds_with_spaces.given) =>
        /\ 0 <= i /\ i <= Len(text)
        /\ \A k \in TokenIndexes :
              LetterLed(k) =>
                  /\ words[k].start > 0 => ~is_latin_letter(At(text, words[k].start - 1))
                  /\ words[k].word = Slice(text, words[k].start, words[k].end)
                  /\ IF UpperRunBeforeDigit(k)
                     THEN /\ words[k].end = AlnumRunEnd(words[k].start)
                          /\ \A p \in 1..Len(words[k].word) : IsAlnumChar(words[k].word[p])
                     ELSE /\ words[k].end = LetterRunEnd(words[k].start)
                          /\ AllLetters(words[k].word)

C7_Witness ==
    /\ ~lexicon_words.given /\ ~compounds_with_spaces.given
    /\ pc = "done"
    /\ \E k \in TokenIndexes : LetterLed(k) /\ UpperRunBeforeDigit(k) /\ Len(words[k].word) >= 3
    /\ \E k \in TokenIndexes :
          /\ LetterLed(k) /\ ~HasUpper(words[k].word)
          /\ words[k].end < Len(text) /\ IsDigit(At(text, words[k].end))

----------------------------------------------------------------------------
(* Vocabulary of the classifier claims *)

IsClassifyWordCall == last.op = "classify_word"
IsClassifyWordsCall == last.op = "classify_words"

\* no letter, at least one digit, and nothing but digits, spaces and commas
IsPureNumber(word) ==
    /\ \A k \in 1..Len(word) : ~IsAlpha(word[k])
    /\ \E k \in 1..Len(word) : IsDigit(word[k])
    /\ \A k \in 1..Len(word) : IsDigit(word[k]) \/ word[k] \in {" ", ","}

\* all uppercase, length > 1, contains a letter
AcronymShape(word) ==
    /\ Len(word) > 1
    /\ \E k \in 1..Len(word) : IsAlpha(word[k])
    /\ \A k \in 1..Len(word) : IsAlpha(word[k]) => IsUpperChar(word[k])
\* initial uppercase, length > 1, some later lowercase letter
ProperNounShape(word) ==
    /\ Len(word) > 1
    /\ IsUpperChar(word[1])
    /\ \E k \in 2..Len(word) : IsLowerChar(word[k])

\* the dictionary probe of a call: the ligature-normalized word, looked up as
\* the call's case_sensitive says
ProbeOf(word, case_sensitive) ==
    IF case_sensitive THEN lookup(normalize_ligatures(word))
    ELSE lookup_case_insensitive(normalize_ligatures(word))
\* the call reached the dictionary, which had no match and no custom entry
ZeroMatches(word, case_sensitive) ==
    /\ ~IsPureNumber(word)
    /\ ~HasCustomEntry(Lower(normalize_ligatures(word)))
    /\ ProbeOf(word, case_sensitive) = <<>>
Fresh == last.acronyms_before = {} /\ last.proper_nouns_before = {}

(* C8: classify_word returns Classified with category NUM, with no entry    *)
(* and without touching the registries, whatever the dictionary and the     *)
(* custom overlay hold for the word, exactly when the word has no letter    *)
(* and is a non-empty digit string once spaces and commas are removed; a    *)
(* word with a letter is never NUM.                                         *)
C8_NumExactlyForPureNumbers ==
    IsClassifyWordCall =>
        /\ IsPureNumber(last.word) =>
              /\ last.result = WordClassification(last.word, CLASSIFIED, "NUM", <<>>, 0)
              /\ acronyms = last.acronyms_before
              /\ proper_nouns = last.proper_nouns_before
        /\ ~IsPureNumber(last.word) => last.result.cgram # "NUM"
        /\ HasLetter(last.word) => last.result.cgram # "NUM"

C8_Witness ==
    /\ IsClassifyWordCall
    /\ last.result.cgram = "NUM"
    /\ last.word = W_1c1
    /\ HasCustomEntry(last.word)
    /\ lookup(W_11) # <<>>

(* C9: for a word with zero dictionary matches and no custom entry (the     *)
(* lookup was reached and found nothing), classify_word registers the       *)
(* lowercase form as acronym (acronym shape) or else as proper noun (proper *)
(* noun shape), then returns NOM:prop if the lowercase form is in the       *)
(* proper-noun registry, else NOM:acro if it is in the acronym registry,    *)
(* else Unknown with no category; on a fresh classifier an acronym shape    *)
(* gives NOM:acro, a proper-noun shape NOM:prop, an all-lowercase word      *)
(* Unknown.                                                                 *)
C9_ZeroMatchesRegistersThenResolves ==
    (IsClassifyWordCall /\ ZeroMatches(last.word, last.case_sensitive)) =>
        LET w == last.word
            key == Lower(w)
        IN  /\ acronyms = last.acronyms_before
                            \cup (IF AcronymShape(w) THEN {key} ELSE {})
            /\ proper_nouns = last.proper_nouns_before
                            \cup (IF ~AcronymShape(w) /\ ProperNounShape(w) THEN {key} ELSE {})
            /\ last.result =
                  IF key \in proper_nouns
                  THEN WordClassification(w, CLASSIFIED, "NOM:prop", <<>>, 0)
                  ELSE IF key \in acronyms
                  THEN WordClassification(w, CLASSIFIED, "NOM:acro", <<>>, 0)
                  ELSE WordClassification(w, UNKNOWN, NoCgram, <<>>, 0)
            /\ Fresh =>
                  /\ AcronymShape(w) => last.result.cgram = "NOM:acro"
                  /\ ProperNounShape(w) => last.result.cgram = "NOM:prop"
                  /\ (\A k \in 1..Len(w) : ~IsUpperChar(w[k])) =>
                        last.result.status = UNKNOWN /\ last.result.cgram = NoCgram

C9_Witness ==
    /\ IsClassifyWordCall
    /\ ZeroMatches(last.word, last.case_sensitive)
    /\ last.word = W_AB
    /\ W_ab \in last.proper_nouns_before
    /\ W_ab \notin last.acronyms_before
    /\ last.result.cgram = "NOM:prop"
    /\ W_ab \in acronyms

\* out of the dictionary under case-insensitive lookup, as typed and normalized
OutOfDictionary(word) ==
    /\ lookup_case_insensitive(word) = <<>>
    /\ ZeroMatches(word, FALSE)
InBatch(word) == \E k \in 1..Len(last.words) : last.words[k] = word

(* C10: in a case-insensitive batch, an out-of-dictionary form seen with    *)
(* proper-noun casing anywhere in the batch gets NOM:prop under its         *)
(* lowercase key, also when the batch holds it in all-uppercase as well     *)
(* (["JOAN", "Joan"] gives NOM:prop for "joan").                            *)
C10_BatchProperNounBeatsAcronym ==
    (IsClassifyWordsCall /\ ~last.case_sensitive) =>
        \A v \in BatchWords :
            (InBatch(v) /\ ProperNounShape(v) /\ ~AcronymShape(v) /\ OutOfDictionary(v)) =>
                /\ Lower(v) \in DOMAIN last.result
                /\ last.result[Lower(v)].status = CLASSIFIED
                /\ last.result[Lower(v)].cgram = "NOM:prop"

C10_Witness ==
    /\ IsClassifyWordsCall
    /\ ~last.case_sensitive
    /\ last.words = <<W_AB, W_Ab>>
    /\ Fresh
    /\ OutOfDictionary(W_AB) /\ OutOfDictionary(W_Ab)
    /\ last.result[W_ab].cgram = "NOM:prop"
    /\ W_ab \in acronyms /\ W_ab \in proper_nouns

----------------------------------------------------------------------------
\* the orders of a list of n words, and a list taken in one of them
ListOrders(n) == {p \in [1..n -> 1..n] : \A a, b \in 1..n : p[a] = p[b] => a = b}
Reordered(ws, p) == [k \in 1..Len(ws) |-> ws[p[k]]]
\* the category classify_words returned under each key
CategoriesOf(result) == [k \in DOMAIN result |-> result[k].cgram]
\* the key of a word in the result of the last batch
KeyOf(word) == IF last.case_sensitive THEN word ELSE Lower(word)

(* C11: for any list of words and either value of case_sensitive, the       *)
(* categories classify_words assigns are the same for every order of the    *)
(* list, and an out-of-dictionary form in all-uppercase whose capitalized   *)
(* variant is in the list too resolves to NOM:prop.                         *)
C11_BatchOrderIndependent ==
    IsClassifyWordsCall =>
        /\ \A p \in ListOrders(Len(last.words)) :
              CategoriesOf(classify_words(last.acronyms_before, last.proper_nouns_before,
                                          Reordered(last.words, p),
                                          last.case_sensitive).result)
                  = CategoriesOf(last.result)
        /\ \A u, v \in BatchWords :
              (/\ InBatch(u) /\ InBatch(v)
               /\ AcronymShape(u) /\ ProperNounShape(v) /\ Lower(u) = Lower(v)
               /\ ZeroMatches(u, last.case_sensitive)
               /\ ZeroMatches(v, last.case_sensitive))
                  => last.result[KeyOf(u)].cgram = "NOM:prop"

\* what the registries hold for a lowercase form once the list of the last
\* batch is added to what earlier calls left
SeenAsProperNoun(key) ==
    \/ key \in last.proper_nouns_before
    \/ \E u \in BatchWords :
          InBatch(u) /\ Lower(u) = key /\ ProperNounShape(u) /\ OutOfDictionary(u)
SeenAsAcronym(key) ==
    \/ key \in last.acronyms_before
    \/ \E u \in BatchWords :
          InBatch(u) /\ Lower(u) = key /\ AcronymShape(u) /\ OutOfDictionary(u)

(* C12 as stated: each call to classify_words starts with empty registries: *)
(* the categories it returns are those the same list gets on a classifier   *)
(* that has classified nothing before.                                      *)
C12_Original_BatchStartsEmpty ==
    IsClassifyWordsCall =>
        CategoriesOf(last.result)
            = CategoriesOf(classify_words({}, {}, last.words, last.case_sensitive).result)

(* C12 amended: the registries are empty when the WordClassifier is built   *)
(* and no call empties them: every call starts with what the earlier calls  *)
(* left and only adds to it. In a case-insensitive batch an out-of-         *)
(* dictionary word gets NOM:prop when its lowercase form was registered as  *)
(* a proper noun by an earlier call or by a word of the list, else NOM:acro *)
(* when registered as an acronym by an earlier call or the list, else no    *)
(* category; on a classifier that has classified nothing the categories     *)
(* depend on the list and the dictionary alone.                             *)
C12_RegistriesAccumulateAcrossCalls ==
    /\ last = NoCall => acronyms = {} /\ proper_nouns = {}
    /\ last # NoCall =>
          /\ last.acronyms_before \subseteq acronyms
          /\ last.proper_nouns_before \subseteq proper_nouns
    /\ (IsClassifyWordsCall /\ ~last.case_sensitive) =>
          \A v \in BatchWords :
              (InBatch(v) /\ OutOfDictionary(v)) =>
                  last.result[Lower(v)].cgram =
                      IF SeenAsProperNoun(Lower(v)) THEN "NOM:prop"
                      ELSE IF SeenAsAcronym(Lower(v)) THEN "NOM:acro"
                      ELSE NoCgram

C12_Witness ==
    /\ IsClassifyWordsCall
    /\ ~last.case_sensitive
    /\ last.words = <<W_AB>>
    /\ OutOfDictionary(W_AB)
    /\ W_ab \in last.proper_nouns_before
    /\ last.result[W_ab].cgram = "NOM:prop"
    /\ classify_words({}, {}, last.words, FALSE).result[W_ab].cgram = "NOM:acro"

----------------------------------------------------------------------------
\* the call reached the dictionary: the word is not numeric and has no overlay
ReachedDictionary ==
    /\ IsClassifyWordCall
    /\ ~IsPureNumber(last.word)
    /\ ~(custom_entries.present
         /\ Lower(normalize_ligatures(last.word)) \in DOMAIN custom_entries.map)
\* the dictionary entries of the last call's word
Found == ProbeOf(last.word, last.case_sensitive)
\* the highest corpus frequency among the entries es
HighestFrequency(es) ==
    CHOOSE f \in {es[k].freq : k \in 1..Len(es)} : \A k \in 1..Len(es) : es[k].freq <= f
\* the entries of es with the highest frequency, by position in the file
PositionsOfHighest(es) == {k \in 1..Len(es) : es[k].freq = HighestFrequency(es)}
SetMin(S) == CHOOSE x \in S : \A y \in S : x <= y
\* _classify_single_entry as classify_word calls it
Resolved(entry) == classify_single_entry(last.word, entry, default_max_depth)

(* C13: for a word with several dictionary entries and                      *)
(* disambiguate_by_frequency=true, classify_word resolves the entry of the  *)
(* highest corpus frequency, whatever the order of the entries; when        *)
(* several entries tie for the highest frequency, the first of them in      *)
(* dictionary order is resolved.                                            *)
C13_HighestFrequencyFirstOfTies ==
    (ReachedDictionary /\ last.disambiguate_by_frequency /\ Len(Found) > 1) =>
        /\ last.result = Resolved(Found[SetMin(PositionsOfHighest(Found))])
        /\ \A p \in ListOrders(Len(Found)) :
              LET other == disambiguate_by_frequency(Reordered(Found, p))
              IN  /\ other.freq = HighestFrequency(Found)
                  /\ Cardinality(PositionsOfHighest(Found)) = 1 =>
                        last.result = Resolved(other)

C13_Witness ==
    /\ ReachedDictionary /\ last.disambiguate_by_frequency
    /\ Len(Found) = 3
    /\ Found[1].freq < Found[2].freq /\ Found[2].freq = Found[3].freq
    /\ last.result.entry = <<Found[2]>>

----------------------------------------------------------------------------
\* the entry the last call resolved: the only one, or the one picked by frequency
EntryResolved ==
    IF Len(Found) = 1 THEN Found[1] ELSE disambiguate_by_frequency(Found)
ResolvesOneEntry ==
    /\ ReachedDictionary
    /\ Len(Found) = 1 \/ (Len(Found) > 1 /\ last.disambiguate_by_frequency)
\* the positions of the is_lem entries keyed by a lemma
LemmaPositions(lemma) ==
    IF lemma \in DOMAIN entries
    THEN {k \in 1..Len(entries[lemma]) : entries[lemma][k].is_lem}
    ELSE {}

(* C14: resolving a single dictionary entry: if its is_lem flag is true the *)
(* result is Classified with that entry's own category and lemma; if it is  *)
(* false and the dictionary holds an entry keyed by the declared lemma with *)
(* is_lem true, the result carries that lemma entry's (the first such       *)
(* entry's) category and lemma; if no such entry exists, the result is      *)
(* Classified with the original entry's own category.                       *)
C14_LemmaEntryOrOwnCategory ==
    ResolvesOneEntry =>
        LET e == EntryResolved
            r == last.result
        IN  /\ r.status = CLASSIFIED /\ r.word = last.word /\ r.entry_count = 1
            /\ Len(r.entry) = 1
            /\ r.cgram = r.entry[1].cgram
            /\ e.is_lem => r.entry[1] = e
            /\ (~e.is_lem /\ LemmaPositions(e.lemme) # {}) =>
                  /\ r.entry[1] = entries[e.lemme][SetMin(LemmaPositions(e.lemme))]
                  /\ r.entry[1].is_lem /\ r.entry[1].ortho = e.lemme
            /\ (~e.is_lem /\ LemmaPositions(e.lemme) = {}) => r.entry[1] = e

C14_Witness ==
    /\ ResolvesOneEntry
    /\ ~EntryResolved.is_lem
    /\ LemmaPositions(EntryResolved.lemme) # {}
    /\ SetMin(LemmaPositions(EntryResolved.lemme)) > 1
    /\ last.result.cgram # EntryResolved.cgram

----------------------------------------------------------------------------
\* the entry's lemma reference leads back to the entry's own form through
\* inflected entries only
InLemmaCycle(e) ==
    /\ ~e.is_lem
    /\ e.lemme \in DOMAIN entries
    /\ LemmaPositions(e.lemme) = {}
    /\ \/ e.lemme = e.ortho
       \/ \E k \in 1..Len(entries[e.lemme]) : entries[e.lemme][k].lemme = e.ortho

----------------------------------------------------------------------------
\* the overlay holds an entry under the key
OverlayHolds(key) == custom_entries.present /\ key \in DOMAIN custom_entries.map

(* C16: if a custom overlay entry exists for the ligature-normalized        *)
(* lowercase form of a non-numeric word, classify_word returns Classified   *)
(* with the overlay's category and lemma, in a synthetic entry of frequency *)
(* 100.0 and is_lem true, whatever the base dictionary holds for the form   *)
(* and whatever case_sensitive and disambiguate_by_frequency are; the       *)
(* registries are left alone.                                               *)
C16_OverlayWins ==
    (/\ IsClassifyWordCall
     /\ ~IsPureNumber(last.word)
     /\ OverlayHolds(Lower(normalize_ligatures(last.word)))) =>
        LET custom_entry == custom_entries.map[Lower(normalize_ligatures(last.word))]
            r == last.result
        IN  /\ r.status = CLASSIFIED /\ r.word = last.word
            /\ r.cgram = custom_entry.cgram
            /\ r.entry_count = 1
            /\ r.entry = <<[ortho |-> custom_entry.ortho, lemme |-> custom_entry.lemme,
                            cgram |-> custom_entry.cgram, freq |-> 1000,
                            is_lem |-> TRUE]>>
            /\ acronyms = last.acronyms_before
            /\ proper_nouns = last.proper_nouns_before

C16_Witness ==
    /\ IsClassifyWordCall
    /\ OverlayHolds(Lower(normalize_ligatures(last.word)))
    /\ Len(lookup(Lower(normalize_ligatures(last.word)))) > 1
    /\ last.disambiguate_by_frequency
    /\ last.result.cgram = "ETRANGER"

----------------------------------------------------------------------------
(* Vocabulary of the clustering claims *)

ClusterIndexes == 1..Len(clusters)
\* the distance from the end of the occurrence before to the start of the
\* k-th occurrence, in position order
GapBefore(k) == sorted_positions[k].start - sorted_positions[k - 1].end
\* the last occurrence the loop handled joined the cluster being grown
LastJoined == Len(current_cluster) >= 2

WithinStatedThreshold(gap, base, n) ==
    IF n <= 4 THEN 2 * gap <= 55 * base
    ELSE IF n >= 115 THEN 10 * gap <= 11 * base
    ELSE 2 * n * gap <= 253 * base

(* C18: with n input occurrences, an occurrence joins the current cluster   *)
(* exactly when its start minus the previous occurrence's end is at most    *)
(* baseMaxDistance * 5.5 * clamp(23 / n, 0.2, 5.0).                         *)
C18_JoinsExactlyWithinThreshold ==
    (cpc \in {"loop", "done"} /\ idx >= 2) =>
        (LastJoined <=> WithinStatedThreshold(GapBefore(idx), max_distance,
                                              Len(positions)))

(* C19: for a fixed base distance, the distance threshold                   *)
(* find_repetition_clusters uses never grows when the number of occurrences *)
(* passed in grows.                                                         *)
C19_ThresholdNonIncreasing ==
    [][adaptive_max_distance' <= adaptive_max_distance]_vars

C19_Witness ==
    /\ cpc = "sweep"
    /\ max_distance = 200
    /\ total_occurrences = 115
    /\ adaptive_max_distance = 220
    /\ AdaptiveMaxDistance(max_distance, 23) = 1100
    /\ AdaptiveMaxDistance(max_distance, 4) = 5500

(* C20: with max_distance=200 and min_occurrences=2, no cluster holds two   *)
(* consecutive occurrences whose gap exceeds max_distance.                  *)
C20_NoGapBeyondMaxDistance ==
    (max_distance = 200 /\ min_occurrences = 2) =>
        \A c \in ClusterIndexes :
            \A k \in 2..Len(clusters[c]) :
                clusters[c][k].start - clusters[c][k - 1].end <= max_distance

----------------------------------------------------------------------------
\* the occurrences of the call, as a set
Occurrences == {positions[k] : k \in 1..Len(positions)}
MembersOf(cluster) == {cluster[k] : k \in 1..Len(cluster)}
\* the gap between two occurrences: later start minus earlier end
GapBetween(a, b) ==
    IF a.start <= b.start THEN b.start - a.end ELSE a.start - b.end
Linked(a, b) == a # b /\ GapBetween(a, b) <= adaptive_max_distance
\* the occurrences reachable from those of S through links
RECURSIVE LinkedClosure(_)
LinkedClosure(S) ==
    LET T == S \cup {b \in Occurrences : \E a \in S : Linked(a, b)}
    IN  IF T = S THEN S ELSE LinkedClosure(T)
ConnectedComponents == {LinkedClosure({a}) : a \in Occurrences}
\* the call went through the loop and returned
ClusteringDone == cpc = "done" /\ sorted_positions # <<>>
\* no span ends after a span that starts later ends
EndsInStartOrder ==
    \A a, b \in Occurrences : a.start < b.start => a.end <= b.end

----------------------------------------------------------------------------
\* sorted_positions holds the occurrences of the call, by ascending start
IsStartSortedInput ==
    /\ Len(sorted_positions) = Len(positions)
    /\ MembersOf(sorted_positions) = Occurrences
    /\ \A k \in 2..Len(sorted_positions) :
          sorted_positions[k - 1].start <= sorted_positions[k].start
\* the cluster is the run of Len(cluster) occurrences from index a on
IsRunFrom(cluster, a) ==
    /\ a >= 1 /\ a + Len(cluster) - 1 <= Len(sorted_positions)
    /\ cluster = SubSeq(sorted_positions, a, a + Len(cluster) - 1)
FirstIndexOf(cluster) ==
    CHOOSE a \in 1..Len(sorted_positions) : IsRunFrom(cluster, a)
LastIndexOf(cluster) == FirstIndexOf(cluster) + Len(cluster) - 1

(* C28: the clusters returned are pairwise disjoint and in ascending        *)
(* position order; each is a contiguous run of the start-sorted input in    *)
(* which every consecutive gap is within the threshold, and each run is     *)
(* maximal: the gap from a cluster's last member to the next occurrence in  *)
(* sorted order exceeds the threshold.                                      *)
C28_ClustersAreMaximalRuns ==
    ClusteringDone =>
        /\ IsStartSortedInput
        /\ \A c \in ClusterIndexes :
              /\ \E a \in 1..Len(sorted_positions) : IsRunFrom(clusters[c], a)
              /\ \A k \in (FirstIndexOf(clusters[c]) + 1)..LastIndexOf(clusters[c]) :
                    GapBefore(k) <= adaptive_max_distance
              /\ LastIndexOf(clusters[c]) < Len(sorted_positions) =>
                    GapBefore(LastIndexOf(clusters[c]) + 1) > adaptive_max_distance
        /\ \A c, d \in ClusterIndexes :
              c < d => /\ LastIndexOf(clusters[c]) < FirstIndexOf(clusters[d])
                       /\ MembersOf(clusters[c]) \cap MembersOf(clusters[d]) = {}

C28_Witness ==
    /\ ClusteringDone
    /\ positions # sorted_positions
    /\ Len(clusters) = 2
    /\ Len(runs) = 3
    /\ LastIndexOf(clusters[1]) + 1 < FirstIndexOf(clusters[2])
    /\ GapBefore(FirstIndexOf(clusters[2])) = adaptive_max_distance + 1

----------------------------------------------------------------------------
\* the entries of a list, as a set
EntriesOf(es) == {es[k] : k \in 1..Len(es)}
\* the entries of every dictionary form equal to the word when case is ignored
CaseIgnoredMatches(word) ==
    UNION {EntriesOf(entries[form]) : form \in {f \in DOMAIN entries : Lower(f) = Lower(word)}}

(* C22: dictionary lookup with case-insensitive matching returns the        *)
(* entries of every dictionary form that equals the queried word when case  *)
(* is ignored, forms stored with uppercase letters included, and an empty   *)
(* list only if there is no such form.                                      *)
C22_CaseInsensitiveLookupFindsAllForms ==
    (IsClassifyWordCall /\ ~last.case_sensitive) =>
        LET query == normalize_ligatures(last.word)
        IN  /\ EntriesOf(lookup_case_insensitive(query)) = CaseIgnoredMatches(query)
            /\ lookup_case_insensitive(query) = <<>> => CaseIgnoredMatches(query) = {}

----------------------------------------------------------------------------
\* a form no dictionary form equals in any casing, typed or normalized, that
\* has no overlay entry and is not a number
FormOutOfDictionary(word) ==
    /\ ~IsPureNumber(word)
    /\ CaseIgnoredMatches(word) = {}
    /\ CaseIgnoredMatches(normalize_ligatures(word)) = {}
    /\ ~OverlayHolds(Lower(normalize_ligatures(word)))

(* C30: on one WordClassifier the acronym and proper-noun registries only   *)
(* grow across calls; a call that sees an out-of-dictionary form with       *)
(* proper-noun casing registers its lowercase form, and every classify_word *)
(* call for any casing of a form so registered returns NOM:prop, also when  *)
(* an earlier call had registered the form as an acronym and returned       *)
(* NOM:acro.                                                                *)
C30_ProperNounOnceSeenStays ==
    /\ last # NoCall =>
          /\ last.acronyms_before \subseteq acronyms
          /\ last.proper_nouns_before \subseteq proper_nouns
    /\ IsClassifyWordsCall =>
          \A v \in BatchWords :
              (InBatch(v) /\ ProperNounShape(v) /\ FormOutOfDictionary(v)) =>
                  Lower(v) \in proper_nouns
    /\ (IsClassifyWordCall /\ FormOutOfDictionary(last.word)) =>
          /\ ProperNounShape(last.word) => Lower(last.word) \in proper_nouns
          /\ Lower(last.word) \in proper_nouns =>
                /\ last.result.status = CLASSIFIED
                /\ last.result.cgram = "NOM:prop"

C30_Witness ==
    /\ IsClassifyWordCall
    /\ FormOutOfDictionary(last.word)
    /\ last.word = W_AB
    /\ W_ab \in last.acronyms_before
    /\ W_ab \in last.proper_nouns_before
    /\ last.result.cgram = "NOM:prop"

----------------------------------------------------------------------------
\* the token at index k was emitted after the multi-word probe found nothing
AfterFailedProbe(k) ==
    /\ is_latin_letter(At(text, words[k].start))
    /\ Truthy(compounds_with_spaces)
    /\ ~ProbeSpaceCompound(text, words[k].start, compounds_with_spaces).compound_found
\* the token at index k was emitted by the rejected-number fallback
RejectedNumberFallback(k) ==
    /\ IsDigit(At(text, words[k].start))
    /\ ~is_number_with_separators(
           Slice(text, words[k].start, RunEnd(text, words[k].start, "numberrun")))

(* C29: extract_words terminates: the cursor never passes the end of the    *)
(* text, and each iteration of the outer scan either ends the scan with the *)
(* cursor at the end of the text or emits exactly one token and moves the   *)
(* cursor strictly forward, also after a failed multi-word probe and on the *)
(* rejected-number fallback.                                                *)
C29_CursorStrictlyForward ==
    [][/\ i' <= Len(text)
       /\ \/ /\ pc' = "done"
             /\ i' = Len(text)
             /\ words' = words
          \/ /\ pc' = "scan"
             /\ Len(words') = Len(words) + 1
             /\ i' > i
             /\ i' = words'[Len(words')].end
             /\ words'[Len(words')].start < i']_vars

C29_Witness ==
    /\ pc = "done"
    /\ \E k \in 1..Len(words) : AfterFailedProbe(k)
    /\ \E k \in 1..Len(words) : RejectedNumberFallback(k)

----------------------------------------------------------------------------
\* extract_words run to its end from cursor k: the list of tokens
RECURSIVE ExtractFrom(_, _, _, _)
ExtractFrom(t, k, lex, compounds) ==
    LET start == RunEnd(t, k, "separator")
    IN  IF start >= Len(t) THEN <<>>
        ELSE LET tok == NextToken(t, start, lex, compounds)
             IN  <<tok>> \o ExtractFrom(t, tok.end, lex, compounds)

extract_words(t, lex, compounds) == ExtractFrom(t, 0, lex, compounds)

\* " ".join(w for w, _, _ in tokens)
RECURSIVE JoinSurfaces(_)
JoinSurfaces(tokens) ==
    IF tokens = <<>> THEN <<>>
    ELSE IF Len(tokens) = 1 THEN tokens[1].word
    ELSE tokens[1].word \o <<" ">> \o JoinSurfaces(Tail(tokens))

\* how many tokens have the surface form w
SurfaceCount(tokens, w) == Cardinality({k \in 1..Len(tokens) : tokens[k].word = w})
SurfacesOf(tokens) == {tokens[k].word : k \in 1..Len(tokens)}
\* the second extraction, from the joined surface forms of the first
ExtractedAgain == extract_words(JoinSurfaces(words), lexicon_words, compounds_with_spaces)

(* C27 as stated: joining the surface forms of the tokens of any text with  *)
(* single spaces and extracting again with the same dictionary arguments    *)
(* yields the same multiset of surface forms.                               *)
C27_Original_SameMultiset ==
    pc = "done" =>
        \A w \in SurfacesOf(words) \cup SurfacesOf(ExtractedAgain) :
            SurfaceCount(ExtractedAgain, w) = SurfaceCount(words, w)

\* two neighbouring tokens both start with a digit
NeighbouringNumbers(tokens) ==
    \E k \in 1..(Len(tokens) - 1) :
        IsDigit(tokens[k].word[1]) /\ IsDigit(tokens[k + 1].word[1])
SurfaceList(tokens) == [k \in 1..Len(tokens) |-> tokens[k].word]

(* C27 amended: outside the numeric and multi-word exceptions, that is when *)
(* no multi-word forms are given and no two neighbouring tokens both start  *)
(* with a digit, joining the surface forms with single spaces and           *)
(* extracting again yields the same surface forms in the same order.        *)
C27_IdempotentOutsideExceptions ==
    (pc = "done" /\ ~Truthy(compounds_with_spaces) /\ ~NeighbouringNumbers(words)) =>
        SurfaceList(ExtractedAgain) = SurfaceList(words)

C27_Witness ==
    /\ pc = "done"
    /\ ~Truthy(compounds_with_spaces)
    /\ ~NeighbouringNumbers(words)
    /\ Len(words) = 2
    /\ words[1].word = W_aqa
    /\ IsDigit(words[2].word[1])
    /\ SurfaceList(ExtractedAgain) = SurfaceList(words)

----------------------------------------------------------------------------
(* The two TSV files generate_html_report reads: the dictionary            *)
(* (lexicon_loader.py, _load_lexicon) and the custom overlay                *)
(* (generate_repetitions_report.py, load_custom_lexicon).                   *)

\* what csv.DictReader gives for a column the row is too short to reach: None
NoField == "<None>"
NoFieldText == <<"<None>">>

\* float(s) on the raw fields the files of the model hold; any other string
\* raises ValueError
FloatTable ==
    ("10.0" :> 10) @@ ("8.0" :> 8) @@ ("5.0" :> 5) @@ ("4.0" :> 4)
    @@ ("100.0" :> 100) @@ ("1.0" :> 1) @@ ("1" :> 1) @@ ("0" :> 0)
\* int(s) likewise
IntTable == ("1" :> 1) @@ ("0" :> 0)

FreqColumn == "Lexique3__freqlemlivres"
IsLemColumn == "Lexique3__islem"
DictionaryColumns == {"ortho", "Lexique3__lemme", "Lexique3__cgram", FreqColumn, IsLemColumn}

DictionaryRow(ortho, lemme, cgram, freq, islem) ==
    [ortho |-> ortho, lemme |-> lemme, cgram |-> cgram, freq |-> freq, islem |-> islem]

\* lines 48-52: float(row[...]) with ValueError and KeyError caught; the
\* TypeError of float(None) is not
RowFreq(file, row) ==
    IF FreqColumn \notin file.columns THEN [raised |-> FALSE, value |-> 0]
    ELSE IF row.freq = NoField THEN [raised |-> TRUE, value |-> 0]
    ELSE IF row.freq \in DOMAIN FloatTable
    THEN [raised |-> FALSE, value |-> FloatTable[row.freq]]
    ELSE [raised |-> FALSE, value |-> 0]

\* lines 54-58: bool(int(row[...])) with ValueError and KeyError caught
RowIsLem(file, row) ==
    IF IsLemColumn \notin file.columns THEN [raised |-> FALSE, value |-> FALSE]
    ELSE IF row.islem = NoField THEN [raised |-> TRUE, value |-> FALSE]
    ELSE IF row.islem \in DOMAIN IntTable
    THEN [raised |-> FALSE, value |-> IntTable[row.islem] # 0]
    ELSE [raised |-> FALSE, value |-> FALSE]

\* lines 62-65: the entry appended under its ortho as written
IndexEntry(index, entry) ==
    IF entry.ortho \in DOMAIN index
    THEN [index EXCEPT ![entry.ortho] = Append(@, entry)]
    ELSE index @@ (entry.ortho :> <<entry>>)

\* lines 43-65: the rows from the k-th on, read into index
RECURSIVE LoadRowsFrom(_, _, _)
LoadRowsFrom(file, k, index) ==
    IF k > Len(file.rows) THEN [raised |-> FALSE, entries |-> index]
    ELSE LET row == file.rows[k]
             freq == RowFreq(file, row)
             is_lem == RowIsLem(file, row)
         IN  IF freq.raised \/ is_lem.raised
             THEN [raised |-> TRUE, entries |-> index]
             ELSE LoadRowsFrom(file, k + 1,
                      IndexEntry(index,
                          LexiconEntry(row.ortho, row.lemme, row.cgram,
                                       freq.value, is_lem.value)))

\* Lexicon._load_lexicon: the mapping built, or an exception raised
load_lexicon(file) == LoadRowsFrom(file, 1, <<>>)

HasSpace(s) == \E k \in 1..Len(s) : s[k] = " "
\* Lexicon._build_compound_with_spaces_index
build_compound_with_spaces_index(index) ==
    {Lower(ortho) : ortho \in {o \in DOMAIN index : HasSpace(o)}}
\* Lexicon.get_all_words_set: a new set
get_all_words_set(index) == {Lower(ortho) : ortho \in DOMAIN index}

OverlayRow(ortho, lemme, cgram, freq, is_lem) ==
    [ortho |-> ortho, lemme |-> lemme, cgram |-> cgram, freq |-> freq, is_lem |-> is_lem]

SpecialCategories == {"NOM_PROPRE", "ACRONYME", "ETRANGER", "INCONNU"}

\* lines 281-294: a required column is None
RowLacksColumn(row) ==
    \/ row.lemme = NoFieldText
    \/ row.cgram = NoField
    \/ row.freq = NoField
    \/ row.is_lem = NoField
\* lines 304-314: float(freq) or int(is_lem) raises
RowHasBadNumber(row) ==
    \/ row.freq \notin DOMAIN FloatTable
    \/ row.is_lem \notin DOMAIN IntTable

\* lines 316-323: the overlay entry of a row, stored under ortho.lower()
OverlayEntry(row) ==
    [categorie |-> IF row.cgram \in SpecialCategories THEN row.cgram ELSE "INCONNU",
     lemme |-> Strip(row.lemme),
     cgram |-> row.cgram,
     freq |-> FloatTable[row.freq],
     is_lem |-> IntTable[row.is_lem],
     ortho_original |-> Strip(row.ortho)]

StoreOverlayEntry(map, key, entry) ==
    IF key \in DOMAIN map THEN [map EXCEPT ![key] = entry] ELSE map @@ (key :> entry)

\* load_custom_lexicon going on past a row it cannot read
RECURSIVE OverlayRowsFrom_SkippingBadRows(_, _, _)
OverlayRowsFrom_SkippingBadRows(rows, k, map) ==
    IF k > Len(rows) THEN [failed |-> FALSE, map |-> map]
    ELSE LET row == rows[k]
         IN  IF Strip(row.ortho) = <<>> \/ RowLacksColumn(row) \/ RowHasBadNumber(row)
             THEN OverlayRowsFrom_SkippingBadRows(rows, k + 1, map)
             ELSE OverlayRowsFrom_SkippingBadRows(rows, k + 1,
                      StoreOverlayEntry(map, Lower(Strip(row.ortho)), OverlayEntry(row)))

\* lines 273-323: the rows from the k-th on; failed is the None returned
RECURSIVE OverlayRowsFrom(_, _, _)
OverlayRowsFrom(rows, k, map) ==
    IF k > Len(rows) THEN [failed |-> FALSE, map |-> map]
    ELSE LET row == rows[k]
         IN  IF Strip(row.ortho) = <<>>
             THEN OverlayRowsFrom(rows, k + 1, map)
             ELSE IF RowLacksColumn(row) \/ RowHasBadNumber(row)
             THEN [failed |-> TRUE, map |-> <<>>]
             ELSE OverlayRowsFrom(rows, k + 1,
                      StoreOverlayEntry(map, Lower(Strip(row.ortho)), OverlayEntry(row)))

\* load_custom_lexicon: {} for a file that does not exist
load_custom_lexicon(file) ==
    IF ~file.exists THEN [failed |-> FALSE, map |-> <<>>]
    ELSE OverlayRowsFrom(file.rows, 1, <<>>)

----------------------------------------------------------------------------
(* generate_repetitions_report.py: generate_html_report, from the tokens to *)
(* the reported categories and clusters. A dict is a list of                *)
(* [key, value] records in insertion order.                                 *)

DictKeys(d) == {d[k].key : k \in 1..Len(d)}
DictHas(d, key) == key \in DictKeys(d)
DictGet(d, key) == d[CHOOSE k \in 1..Len(d) : d[k].key = key].value
\* d[key] = value
DictSet(d, key, value) ==
    IF DictHas(d, key)
    THEN [k \in 1..Len(d) |-> IF d[k].key = key THEN [key |-> key, value |-> value] ELSE d[k]]
    ELSE Append(d, [key |-> key, value |-> value])
\* d.setdefault(key, []).append(item)
DictAppend(d, key, item) ==
    DictSet(d, key, IF DictHas(d, key) THEN Append(DictGet(d, key), item) ELSE <<item>>)

UpperChar(c) ==
    CASE c = "a" -> "A"
      [] c = "b" -> "B"
      [] c = "c" -> "C"
      [] c = "e" -> "E"
      [] c = "l" -> "L"
      [] c = "o" -> "O"
      [] c = "u" -> "U"
      [] c = LigOe -> LigOE
      [] c = LigAe -> LigAE
      [] OTHER -> c
\* str.capitalize()
Capitalize(s) ==
    [k \in 1..Len(s) |-> IF k = 1 THEN UpperChar(s[k]) ELSE LowerChar(s[k])]

\* lines 522-524
excluded_categories ==
    {"ART:def", "ART:ind", "PRO:per", "PRO:int", "PRO:rel", "PRO:dem", "PRO:ind",
     "PRO:pos", "CON", "PRE", "ADJ:pos", "ADJ:dem", "ADJ:num"}
\* line 527
excluded_lemmas_for_clusters == {<<"n", "e">>, <<"p", "a", "s">>}
\* line 677: the lemmas forced into AUX
AuxLemmas == {<<"{e^}", "t", "r", "e">>, <<"a", "v", "o", "i", "r">>}

\* lines 514-519: every lowercased surface form classified, case-insensitively
\* and by frequency; a lowercased word has neither the acronym nor the
\* proper-noun shape, so the registries stay empty whatever the order of the set
ClassifyUnique(tokens) ==
    [w \in {Lower(tokens[k].word) : k \in 1..Len(tokens)} |->
        classify_word({}, {}, w, FALSE, TRUE).result]

\* lines 542-546: the lemma a classified token is counted under
LemmaOf(classif, word_lower) ==
    IF classif.entry # <<>> /\ classif.entry[1].lemme # <<>>
    THEN Lower(classif.entry[1].lemme)
    ELSE word_lower

\* lines 536-572, one token
GroupToken(g, tok, classifs, overlay) ==
    LET word_lower == Lower(tok.word)
        classif == classifs[word_lower]
    IN  IF classif.status = CLASSIFIED
        THEN IF classif.cgram \in excluded_categories THEN g
             ELSE LET lemma == LemmaOf(classif, word_lower)
                      special == /\ word_lower \in DOMAIN overlay
                                 /\ overlay[word_lower].cgram \in SpecialCategories
                      before == IF DictHas(g.custom_special_words, word_lower)
                                THEN DictGet(g.custom_special_words, word_lower)
                                ELSE [cgram |-> overlay[word_lower].cgram,
                                      lemma |-> lemma, positions |-> <<>>]
                  IN  [g EXCEPT
                          !.lemma_positions = DictAppend(@, lemma, tok),
                          !.custom_special_words =
                              IF special
                              THEN DictSet(@, word_lower,
                                       [before EXCEPT !.positions = Append(@, tok)])
                              ELSE @]
        ELSE IF classif.status = UNKNOWN
        THEN [g EXCEPT !.unknown_words_data = Append(@, tok)]
        ELSE g

RECURSIVE GroupFrom(_, _, _, _, _)
GroupFrom(g, tokens, k, classifs, overlay) ==
    IF k > Len(tokens) THEN g
    ELSE GroupFrom(GroupToken(g, tokens[k], classifs, overlay), tokens, k + 1,
                   classifs, overlay)

\* lines 529-572: lemma_positions, unknown_words_data, custom_special_words
GroupByLemma(tokens, classifs, overlay) ==
    GroupFrom([lemma_positions |-> <<>>, unknown_words_data |-> <<>>,
               custom_special_words |-> <<>>], tokens, 1, classifs, overlay)

\* lines 583-604: the category and lemma of an unknown token
UnknownCategory(tok, overlay) ==
    LET word_lower == Lower(tok.word)
    IN  IF word_lower \in DOMAIN overlay
        THEN [category |-> overlay[word_lower].categorie,
              lemma |-> overlay[word_lower].lemme, tok |-> tok]
        ELSE IF IsUpperStr(tok.word) /\ Len(tok.word) > 1
        THEN [category |-> "ACRONYME", lemma |-> tok.word, tok |-> tok]
        ELSE IF IsUpperChar(tok.word[1])
        THEN [category |-> "NOM_PROPRE", lemma |-> tok.word, tok |-> tok]
        ELSE [category |-> "INCONNU", lemma |-> word_lower, tok |-> tok]

\* "CATEGORY:lemma"
PrefixedKey(category, lemma) == <<category, ":">> \o lemma
HasPrefix(key) == \E k \in 1..Len(key) : key[k] = ":"

\* lines 611-624 and 627-634: an acronym joins the proper noun of its
\* capitalized form when the text has one
FinalKey(u, temp_unknown_data) ==
    IF /\ u.category = "ACRONYME"
       /\ \E k \in 1..Len(temp_unknown_data) :
              /\ temp_unknown_data[k].category = "NOM_PROPRE"
              /\ temp_unknown_data[k].lemma = Capitalize(u.lemma)
    THEN PrefixedKey("NOM_PROPRE", Capitalize(u.lemma))
    ELSE PrefixedKey(u.category, u.lemma)

RECURSIVE UnknownFrom(_, _, _)
UnknownFrom(d, temp_unknown_data, k) ==
    IF k > Len(temp_unknown_data) THEN d
    ELSE UnknownFrom(DictAppend(d, FinalKey(temp_unknown_data[k], temp_unknown_data),
                                temp_unknown_data[k].tok),
                     temp_unknown_data, k + 1)

\* lines 577-645: unknown_lemma_positions
GroupUnknown(unknown_words_data, overlay) ==
    UnknownFrom(<<>>,
                [k \in 1..Len(unknown_words_data) |->
                    UnknownCategory(unknown_words_data[k], overlay)], 1)

\* every lemma of more than one letter kept, whatever its count
RECURSIVE RepetitionsFrom_AnyCount(_, _, _)
RepetitionsFrom_AnyCount(positions_by_lemma, k, least) ==
    IF k > Len(positions_by_lemma) THEN <<>>
    ELSE (IF Len(positions_by_lemma[k].key) > 1
          THEN <<[key |-> positions_by_lemma[k].key,
                  value |-> Len(positions_by_lemma[k].value)]>>
          ELSE <<>>)
         \o RepetitionsFrom_AnyCount(positions_by_lemma, k + 1, least)

\* lines 649-651: the lemmas kept, with their counts, in order of first occurrence
RECURSIVE RepetitionsFrom(_, _, _)
RepetitionsFrom(positions_by_lemma, k, least) ==
    IF k > Len(positions_by_lemma) THEN <<>>
    ELSE LET lemma == positions_by_lemma[k].key
             count == Len(positions_by_lemma[k].value)
         IN  (IF count >= least /\ Len(lemma) > 1
              THEN <<[key |-> lemma, value |-> count]>> ELSE <<>>)
             \o RepetitionsFrom(positions_by_lemma, k + 1, least)

IsCustomSpecialLemma(special_words, lemma) ==
    \E k \in 1..Len(special_words) : special_words[k].value.lemma = lemma

\* lines 665-671: the classification a lemma's category is read from
LemmaClassification(lemma, positions_by_lemma, classifs) ==
    IF lemma \in DOMAIN classifs /\ classifs[lemma].cgram # NoCgram
    THEN <<classifs[lemma]>>
    ELSE LET first_form == DictGet(positions_by_lemma, lemma)[1].word
         IN  IF first_form \in DOMAIN classifs THEN <<classifs[first_form]>> ELSE <<>>

ReportedLemma(lemma, count, is_unknown) ==
    [lemma |-> lemma, count |-> count, is_unknown |-> is_unknown]

\* lines 654-719: the repeated dictionary lemmas, by category
RECURSIVE KnownCategoriesFrom(_, _, _, _, _, _)
KnownCategoriesFrom(data, reps, k, positions_by_lemma, special_words, classifs) ==
    IF k > Len(reps) THEN data
    ELSE LET lemma == reps[k].key
             classif == LemmaClassification(lemma, positions_by_lemma, classifs)
             cgram == IF lemma \in AuxLemmas THEN "AUX" ELSE classif[1].cgram
             next == IF IsCustomSpecialLemma(special_words, lemma) THEN data
                     ELSE IF classif = <<>> THEN data
                     ELSE IF classif[1].cgram = NoCgram THEN data
                     ELSE DictAppend(data, cgram, ReportedLemma(lemma, reps[k].value, FALSE))
         IN  KnownCategoriesFrom(next, reps, k + 1, positions_by_lemma, special_words,
                                 classifs)

\* lines 722-730: the keys the overlay words already stand for
custom_special_lemmas(special_words) ==
    UNION {{PrefixedKey(special_words[k].value.cgram, Lower(special_words[k].value.lemma)),
            PrefixedKey(special_words[k].value.cgram, special_words[k].key)} :
           k \in 1..Len(special_words)}

\* the lemma of a "CATEGORY:lemma" key
KeyLemma(key) == SubSeq(key, 3, Len(key))

\* lines 734-799: every unknown lemma, whatever its count
RECURSIVE UnknownCategoriesFrom(_, _, _, _, _)
UnknownCategoriesFrom(data, unknown_positions, k, special_words, overlay) ==
    IF k > Len(unknown_positions) THEN data
    ELSE LET key == unknown_positions[k].key
             category == key[1]
             lemma == KeyLemma(key)
             next == IF PrefixedKey(category, Lower(lemma))
                            \in custom_special_lemmas(special_words) THEN data
                     ELSE IF Lower(lemma) \in DOMAIN overlay THEN data
                     ELSE DictAppend(data, category,
                              ReportedLemma(lemma, Len(unknown_positions[k].value), TRUE))
         IN  UnknownCategoriesFrom(next, unknown_positions, k + 1, special_words, overlay)

\* lines 803-820: the overlay words of one category and lemma put together
RECURSIVE AggregateFrom(_, _, _)
AggregateFrom(agg, special_words, k) ==
    IF k > Len(special_words) THEN agg
    ELSE LET data == special_words[k].value
             unique_key == PrefixedKey(data.cgram, data.lemma)
             before == IF DictHas(agg, unique_key) THEN DictGet(agg, unique_key)
                       ELSE [cgram |-> data.cgram, lemma |-> data.lemma, positions |-> <<>>]
         IN  AggregateFrom(DictSet(agg, unique_key,
                               [before EXCEPT !.positions = @ \o data.positions]),
                           special_words, k + 1)
aggregated_custom_words(special_words) == AggregateFrom(<<>>, special_words, 1)

\* lines 822-870: the overlay lemmas, under the overlay's category
RECURSIVE CustomCategoriesFrom(_, _, _)
CustomCategoriesFrom(data, agg, k) ==
    IF k > Len(agg) THEN data
    ELSE CustomCategoriesFrom(
             DictAppend(data, agg[k].value.cgram,
                 ReportedLemma(agg[k].value.lemma, Len(agg[k].value.positions), FALSE)),
             agg, k + 1)

\* lines 653-870: cgram_data
BuildCategories(reps, by_lemma, unknown_by_key, special_words, classifs, overlay) ==
    CustomCategoriesFrom(
        UnknownCategoriesFrom(
            KnownCategoriesFrom(<<>>, reps, 1, by_lemma, special_words, classifs),
            unknown_by_key, 1, special_words, overlay),
        aggregated_custom_words(special_words), 1)

\* lines 61-80 of find_repetition_clusters from the k-th sorted occurrence on
RECURSIVE ClustersFrom(_, _, _, _, _, _)
ClustersFrom(sorted, k, current, kept, threshold, least) ==
    LET closed == IF Len(current) >= least THEN Append(kept, current) ELSE kept
    IN  IF k > Len(sorted) THEN closed
        ELSE IF SameCluster(sorted[k - 1].end, sorted[k].start, threshold)
        THEN ClustersFrom(sorted, k + 1, Append(current, sorted[k]), kept, threshold, least)
        ELSE ClustersFrom(sorted, k + 1, <<sorted[k]>>, closed, threshold, least)

\* find_repetition_clusters as the function of its arguments
find_repetition_clusters(ps, base_distance, asked) ==
    IF Len(ps) < min_cluster_size(asked) THEN <<>>
    ELSE ClustersFrom(SortedByStart(ps), 2, <<SortedByStart(ps)[1]>>, <<>>,
                      AdaptiveMaxDistance(base_distance, Len(ps)),
                      min_cluster_size(asked))

\* line 896: max_distance=200
report_max_distance == 200

\* lines 874-883: all_lemma_positions
RECURSIVE WithAggregated(_, _, _)
WithAggregated(all, agg, k) ==
    IF k > Len(agg) THEN all
    ELSE WithAggregated(DictSet(all, agg[k].value.lemma, agg[k].value.positions), agg, k + 1)
all_lemma_positions(positions_by_lemma, unknown_positions, special_words) ==
    WithAggregated(positions_by_lemma \o unknown_positions,
                   aggregated_custom_words(special_words), 1)
\* lines 877-883: the keys of all_repetitions_for_clusters
all_repetitions_for_clusters(reps, unknown_positions, special_words) ==
    DictKeys(reps) \cup DictKeys(unknown_positions)
    \cup {special_words[k].value.lemma : k \in 1..Len(special_words)}

\* lines 887-898
RECURSIVE LemmaClustersFrom(_, _, _, _, _)
LemmaClustersFrom(found, all, k, kept_lemmas, special_words) ==
    IF k > Len(all) THEN found
    ELSE LET lemma == all[k].key
             is_unknown_word == HasPrefix(lemma) /\ lemma[1] \in SpecialCategories
             is_custom_special == IsCustomSpecialLemma(special_words, lemma)
             min_occ == IF is_unknown_word \/ is_custom_special THEN 1 ELSE 2
             cs == find_repetition_clusters(all[k].value, report_max_distance, min_occ)
             next == IF lemma \in kept_lemmas /\ lemma \notin excluded_lemmas_for_clusters
                        /\ cs # <<>>
                     THEN DictSet(found, lemma, cs) ELSE found
         IN  LemmaClustersFrom(next, all, k + 1, kept_lemmas, special_words)

----------------------------------------------------------------------------
(* export_custom_lexicon *)

\* the characters of the model in code-point order
CharOrder ==
    <<" ", "'", ",", ".", "0", "1", "2", "3", "4", "5", "6", "7", "8", "9",
      "A", "B", "C", "E", "L", "O", "U",
      "a", "b", "c", "d", "e", "g", "h", "i", "l", "m", "n", "o", "r", "s", "t",
      "u", "y", LigAE, LigAe, LigOE, LigOe>>
CharRank(c) == CHOOSE k \in 1..Len(CharOrder) : CharOrder[k] = c
\* a < b for Python strings
RECURSIVE StringLess(_, _)
StringLess(a, b) ==
    IF b = <<>> THEN FALSE
    ELSE IF a = <<>> THEN TRUE
    ELSE IF Head(a) = Head(b) THEN StringLess(Tail(a), Tail(b))
    ELSE CharRank(Head(a)) < CharRank(Head(b))

\* sorted(set(forms)): the distinct surface forms of a list of tokens
RECURSIVE SortedStrings(_)
SortedStrings(S) ==
    IF S = {} THEN <<>>
    ELSE LET least == CHOOSE a \in S : \A b \in S \ {a} : StringLess(a, b)
         IN  <<least>> \o SortedStrings(S \ {least})

\* lines 358-377: the rows of the file as it stands, the last of each
\* lowercased ortho in the place of the first; the rows were read before by
\* load_custom_lexicon, so each has its columns and numbers
RECURSIVE ExistingEntriesFrom(_, _, _)
ExistingEntriesFrom(d, rows, k) ==
    IF k > Len(rows) THEN d
    ELSE IF Strip(rows[k].ortho) = <<>> THEN ExistingEntriesFrom(d, rows, k + 1)
    ELSE ExistingEntriesFrom(
             DictSet(d, Lower(Strip(rows[k].ortho)),
                 [ortho |-> Strip(rows[k].ortho), lemme |-> Strip(rows[k].lemme),
                  cgram |-> rows[k].cgram, freq |-> FloatTable[rows[k].freq],
                  is_lem |-> IntTable[rows[k].is_lem]]),
             rows, k + 1)

\* lines 380-399: one row for each form of an unknown lemma the file lacks
NewEntriesOf(key, tokens, existing) ==
    LET forms == SortedStrings({tokens[k].word : k \in 1..Len(tokens)})
        row(form) == [ortho |-> form, lemme |-> KeyLemma(key), cgram |-> key[1],
                      freq |-> Len(tokens),
                      is_lem |-> IF form = KeyLemma(key) THEN 1 ELSE 0]
        RECURSIVE rows_from(_)
        rows_from(k) ==
            IF k > Len(forms) THEN <<>>
            ELSE (IF DictHas(existing, Lower(forms[k])) THEN <<>> ELSE <<row(forms[k])>>)
                 \o rows_from(k + 1)
    IN  rows_from(1)

RECURSIVE NewEntriesFrom(_, _, _)
NewEntriesFrom(unknown_positions, k, existing) ==
    IF k > Len(unknown_positions) THEN <<>>
    ELSE NewEntriesOf(unknown_positions[k].key, unknown_positions[k].value, existing)
         \o NewEntriesFrom(unknown_positions, k + 1, existing)

\* list.sort by the lowercased ortho, stable
RECURSIVE InsertByOrtho(_, _)
InsertByOrtho(sorted, row) ==
    IF sorted = <<>> THEN <<row>>
    ELSE IF StringLess(Lower(row.ortho), Lower(Head(sorted).ortho))
    THEN <<row>> \o sorted
    ELSE <<Head(sorted)>> \o InsertByOrtho(Tail(sorted), row)
RECURSIVE SortedByOrtho(_)
SortedByOrtho(rows) ==
    IF rows = <<>> THEN <<>>
    ELSE InsertByOrtho(SortedByOrtho(SubSeq(rows, 1, Len(rows) - 1)), rows[Len(rows)])

\* the rows export_custom_lexicon writes
export_custom_lexicon(file, unknown_positions) ==
    LET existing == IF file.exists THEN ExistingEntriesFrom(<<>>, file.rows, 1) ELSE <<>>
        existing_rows == [k \in 1..Len(existing) |-> existing[k].value]
    IN  SortedByOrtho(existing_rows \o NewEntriesFrom(unknown_positions, 1, existing))

----------------------------------------------------------------------------
(* Inputs of generate_html_report *)

W_Le == <<"L", "e">>
W_le == <<"l", "e">>
W_Un == <<"U", "n">>
W_un == <<"u", "n">>
W_chat == <<"c", "h", "a", "t">>
W_chien == <<"c", "h", "i", "e", "n">>
W_dort == <<"d", "o", "r", "t">>
W_dormir == <<"d", "o", "r", "m", "i", "r">>
W_mange == <<"m", "a", "n", "g", "e">>
W_manger == <<"m", "a", "n", "g", "e", "r">>
W_aboie == <<"a", "b", "o", "i", "e">>
W_Le_chat == W_Le \o <<" ">> \o W_chat

\* "Le chat dort.", "Le chat mange.", "Un chien aboie."
S_chat_dort == W_Le \o <<" ">> \o W_chat \o <<" ">> \o W_dort \o <<".">>
S_chat_mange == W_Le \o <<" ">> \o W_chat \o <<" ">> \o W_mange \o <<".">>
S_chien_aboie == W_Un \o <<" ">> \o W_chien \o <<" ">> \o W_aboie \o <<".">>
Sentences == {S_chat_dort, S_chat_mange, S_chien_aboie}

MaxSentences == 3

RECURSIVE JoinSentences(_)
JoinSentences(ss) ==
    IF Len(ss) = 1 THEN ss[1] ELSE ss[1] \o <<" ">> \o JoinSentences(Tail(ss))
ReportTexts ==
    {JoinSentences(ss) : ss \in UNION {[1..n -> Sentences] : n \in 1..MaxSentences}}
\* "Le chat dort. Le chat mange. Un chien aboie."
ScenarioText == JoinSentences(<<S_chat_dort, S_chat_mange, S_chien_aboie>>)

\* the chien row of the dictionary file, with the raw fields given
ChienRow(freq, islem) == DictionaryRow(W_chien, W_chien, "NOM", freq, islem)
DictionaryRows(chien_row) ==
    <<DictionaryRow(W_chat, W_chat, "NOM", "10.0", "1"),
      DictionaryRow(W_dort, W_dormir, "VER", "5.0", "0"),
      DictionaryRow(W_dormir, W_dormir, "VER", "5.0", "1"),
      chien_row,
      DictionaryRow(W_mange, W_manger, "VER", "4.0", "0"),
      DictionaryRow(W_manger, W_manger, "VER", "4.0", "1"),
      DictionaryRow(W_le, W_le, "ART:def", "100.0", "1"),
      DictionaryRow(W_un, W_un, "ART:ind", "100.0", "1")>>
ScenarioDictionary ==
    [columns |-> DictionaryColumns, rows |-> DictionaryRows(ChienRow("8.0", "1"))]
\* the scenario's file with the chien row unparseable, empty or cut short, or
\* without the is-lemma column
DictionaryFiles ==
    {ScenarioDictionary}
    \cup {[columns |-> DictionaryColumns, rows |-> DictionaryRows(ChienRow(f[1], f[2]))] :
            f \in {<<"abc", "1">>, <<"8.0", "x">>, <<"", "">>,
                   <<"8.0", NoField>>, <<NoField, NoField>>}}
    \cup {[columns |-> DictionaryColumns \ {IsLemColumn},
           rows |-> DictionaryRows(ChienRow("abc", NoField))]}

NoOverlayFile == [exists |-> FALSE, rows |-> <<>>]
R_aboie == OverlayRow(W_aboie, W_aboie, "ETRANGER", "1.0", "1")
R_Le_chat == OverlayRow(W_Le_chat, W_Le_chat, "NOM_PROPRE", "1.0", "1")
R_blank == OverlayRow(<<" ">>, NoFieldText, NoField, NoField, NoField)
R_bad_freq == OverlayRow(W_chien, W_chien, "NOM", "abc", "1")
R_bad_is_lem == OverlayRow(W_chien, W_chien, "NOM", "1.0", "x")
R_short == OverlayRow(W_chien, W_chien, "NOM", NoField, NoField)
OverlayFiles ==
    {NoOverlayFile}
    \cup {[exists |-> TRUE, rows |-> rows] :
            rows \in {<<>>, <<R_aboie>>, <<R_Le_chat>>, <<R_blank>>, <<R_blank, R_aboie>>,
                      <<R_aboie, R_bad_freq>>, <<R_aboie, R_short>>,
                      <<R_bad_is_lem, R_aboie>>}}

\* (overlay file, dictionary file): one of the two is the scenario's
FilePairs ==
    {<<o, ScenarioDictionary>> : o \in OverlayFiles}
    \cup {<<NoOverlayFile, d>> : d \in DictionaryFiles}

ReportMinOccurrences == {1, 2}

----------------------------------------------------------------------------
(* generate_html_report as a state machine: one action per stage *)

InitReport ==
    /\ text \in ReportTexts
    /\ lexicon_words = NoneSet
    /\ compounds_with_spaces = NoneSet
    /\ i = 0
    /\ words = <<>>
    /\ pc = "scan"
    /\ ClassifierIdle
    /\ ClusterIdle
    /\ rpc = "start"
    /\ \E files \in FilePairs :
          /\ overlay_file = files[1]
          /\ dictionary_file = files[2]
    /\ report_min_occurrences \in ReportMinOccurrences
    /\ custom_lexicon = NotLoaded
    /\ lexicon_compounds = {}
    /\ report_classifications = <<>>
    /\ lemma_positions = <<>>
    /\ unknown_lemma_positions = <<>>
    /\ custom_special_words = <<>>
    /\ repetitions = <<>>
    /\ cgram_data = <<>>
    /\ lemma_clusters = <<>>
    /\ files_written = {}

\* lines 464-465: custom_lexicon = load_custom_lexicon(custom_lexicon_path)
LoadCustomLexicon ==
    /\ rpc = "start"
    /\ custom_lexicon' = load_custom_lexicon(overlay_file)
    /\ rpc' = "overlay_read"
    /\ UNCHANGED <<overlay_file, dictionary_file, report_min_occurrences,
                   lexicon_compounds, report_classifications, lemma_positions,
                   unknown_lemma_positions, custom_special_words, repetitions,
                   cgram_data, lemma_clusters, files_written>>
    /\ UNCHANGED <<extract_vars, classifier_vars, cluster_vars>>

\* lines 467-470: the overlay could not be read, return
ReturnOnFailedOverlay ==
    /\ rpc = "overlay_read"
    /\ custom_lexicon.failed
    /\ rpc' = "returned"
    /\ UNCHANGED <<overlay_file, dictionary_file, report_min_occurrences,
                   custom_lexicon, lexicon_compounds, report_classifications,
                   lemma_positions, unknown_lemma_positions, custom_special_words,
                   repetitions, cgram_data, lemma_clusters, files_written>>
    /\ UNCHANGED <<extract_vars, classifier_vars, cluster_vars>>

\* lines 475-479: Lexicon(...), get_all_words_set(), get_compounds_with_spaces();
\* compounds_with_spaces is the set the Lexicon holds, not a copy
LoadDictionary ==
    /\ rpc = "overlay_read"
    /\ ~custom_lexicon.failed
    /\ LET loaded == load_lexicon(dictionary_file)
       IN  IF loaded.raised
           THEN /\ rpc' = "raised"
                /\ UNCHANGED <<entries, lexicon_compounds, lexicon_words,
                               compounds_with_spaces>>
           ELSE /\ rpc' = "dictionary_loaded"
                /\ entries' = loaded.entries
                /\ lexicon_compounds' = build_compound_with_spaces_index(loaded.entries)
                /\ lexicon_words' = SomeSet(get_all_words_set(loaded.entries))
                /\ compounds_with_spaces' =
                       SomeSet(build_compound_with_spaces_index(loaded.entries))
    /\ UNCHANGED <<overlay_file, dictionary_file, report_min_occurrences,
                   custom_lexicon, report_classifications, lemma_positions,
                   unknown_lemma_positions, custom_special_words, repetitions,
                   cgram_data, lemma_clusters, files_written>>
    /\ UNCHANGED <<text, i, words, pc, custom_entries, acronyms, proper_nouns, last>>
    /\ UNCHANGED cluster_vars

\* the overlay's forms, as typed
OverlayOrthos == {custom_lexicon.map[k].ortho_original : k \in DOMAIN custom_lexicon.map}

\* lines 481-504: the overlay put into lexicon_words, into the set of
\* multi-word forms, which is the Lexicon's own, and into lexicon._custom_entries
InjectOverlay ==
    /\ rpc = "dictionary_loaded"
    /\ rpc' = "injected"
    /\ IF DOMAIN custom_lexicon.map = {}
       THEN UNCHANGED <<lexicon_words, compounds_with_spaces, lexicon_compounds,
                        custom_entries>>
       ELSE /\ lexicon_words' =
                   SomeSet(lexicon_words.elems \cup {Lower(o) : o \in OverlayOrthos})
            /\ lexicon_compounds' =
                   lexicon_compounds \cup {Lower(o) : o \in {x \in OverlayOrthos : HasSpace(x)}}
            /\ compounds_with_spaces' =
                   SomeSet(lexicon_compounds
                           \cup {Lower(o) : o \in {x \in OverlayOrthos : HasSpace(x)}})
            /\ custom_entries' =
                   [present |-> TRUE,
                    map |-> [key \in {Lower(o) : o \in OverlayOrthos} |->
                                LET entry == custom_lexicon.map[
                                        CHOOSE k \in DOMAIN custom_lexicon.map :
                                            Lower(custom_lexicon.map[k].ortho_original) = key]
                                IN  CustomEntry(entry.ortho_original, entry.lemme, entry.cgram)]]
    /\ UNCHANGED <<overlay_file, dictionary_file, report_min_occurrences,
                   custom_lexicon, report_classifications, lemma_positions,
                   unknown_lemma_positions, custom_special_words, repetitions,
                   cgram_data, lemma_clusters, files_written>>
    /\ UNCHANGED <<text, i, words, pc, entries, acronyms, proper_nouns, last>>
    /\ UNCHANGED cluster_vars

\* lines 506-509: words_with_positions = extract_words(text, ...)
ExtractWords ==
    /\ rpc = "injected"
    /\ rpc' = "extracted"
    /\ words' = extract_words(text, lexicon_words, compounds_with_spaces)
    /\ i' = Len(text)
    /\ pc' = "done"
    /\ UNCHANGED <<text, lexicon_words, compounds_with_spaces>>
    /\ UNCHANGED <<overlay_file, dictionary_file, report_min_occurrences,
                   custom_lexicon, lexicon_compounds, report_classifications,
                   lemma_positions, unknown_lemma_positions, custom_special_words,
                   repetitions, cgram_data, lemma_clusters, files_written>>
    /\ UNCHANGED <<classifier_vars, cluster_vars>>

\* lines 511-519: a new WordClassifier classifies each lowercased word
ClassifyUniqueWords ==
    /\ rpc = "extracted"
    /\ rpc' = "classified"
    /\ report_classifications' = ClassifyUnique(words)
    /\ UNCHANGED <<overlay_file, dictionary_file, report_min_occurrences,
                   custom_lexicon, lexicon_compounds, lemma_positions,
                   unknown_lemma_positions, custom_special_words, repetitions,
                   cgram_data, lemma_clusters, files_written>>
    /\ UNCHANGED <<extract_vars, classifier_vars, cluster_vars>>

\* lines 529-645: the occurrences grouped by lemma, the unknown words by category
GroupWords ==
    /\ rpc = "classified"
    /\ rpc' = "grouped"
    /\ LET g == GroupByLemma(words, report_classifications, custom_lexicon.map)
       IN  /\ lemma_positions' = g.lemma_positions
           /\ custom_special_words' = g.custom_special_words
           /\ unknown_lemma_positions' = GroupUnknown(g.unknown_words_data, custom_lexicon.map)
    /\ UNCHANGED <<overlay_file, dictionary_file, report_min_occurrences,
                   custom_lexicon, lexicon_compounds, report_classifications,
                   repetitions, cgram_data, lemma_clusters, files_written>>
    /\ UNCHANGED <<extract_vars, classifier_vars, cluster_vars>>

\* lines 649-870: the repetitions and the lemmas reported under each category
Categorise ==
    /\ rpc = "grouped"
    /\ rpc' = "categorised"
    /\ repetitions' = RepetitionsFrom(lemma_positions, 1, report_min_occurrences)
    /\ cgram_data' =
           BuildCategories(RepetitionsFrom(lemma_positions, 1, report_min_occurrences),
                           lemma_positions, unknown_lemma_positions,
                           custom_special_words, report_classifications,
                           custom_lexicon.map)
    /\ UNCHANGED <<overlay_file, dictionary_file, report_min_occurrences,
                   custom_lexicon, lexicon_compounds, report_classifications,
                   lemma_positions, unknown_lemma_positions, custom_special_words,
                   lemma_clusters, files_written>>
    /\ UNCHANGED <<extract_vars, classifier_vars, cluster_vars>>

\* lines 872-898: the clusters of each lemma
FindClusters ==
    /\ rpc = "categorised"
    /\ rpc' = "clustered"
    /\ lemma_clusters' =
           LemmaClustersFrom(<<>>,
               all_lemma_positions(lemma_positions, unknown_lemma_positions,
                                   custom_special_words),
               1,
               all_repetitions_for_clusters(repetitions, unknown_lemma_positions,
                                            custom_special_words),
               custom_special_words)
    /\ UNCHANGED <<overlay_file, dictionary_file, report_min_occurrences,
                   custom_lexicon, lexicon_compounds, report_classifications,
                   lemma_positions, unknown_lemma_positions, custom_special_words,
                   repetitions, cgram_data, files_written>>
    /\ UNCHANGED <<extract_vars, classifier_vars, cluster_vars>>

\* lines 1871-1877: the HTML report written to output_file
WriteReport ==
    /\ rpc = "clustered"
    /\ rpc' = "report_written"
    /\ files_written' = files_written \cup {"report"}
    /\ UNCHANGED <<overlay_file, dictionary_file, report_min_occurrences,
                   custom_lexicon, lexicon_compounds, report_classifications,
                   lemma_positions, unknown_lemma_positions, custom_special_words,
                   repetitions, cgram_data, lemma_clusters>>
    /\ UNCHANGED <<extract_vars, classifier_vars, cluster_vars>>

\* lines 1879-1898: export_custom_lexicon rewrites the overlay file
ExportCustomLexicon ==
    /\ rpc = "report_written"
    /\ rpc' = "done"
    /\ overlay_file' = [exists |-> TRUE,
                        rows |-> export_custom_lexicon(overlay_file, unknown_lemma_positions)]
    /\ files_written' = files_written \cup {"custom_lexicon"}
    /\ UNCHANGED <<dictionary_file, report_min_occurrences,
                   custom_lexicon, lexicon_compounds, report_classifications,
                   lemma_positions, unknown_lemma_positions, custom_special_words,
                   repetitions, cgram_data, lemma_clusters>>
    /\ UNCHANGED <<extract_vars, classifier_vars, cluster_vars>>

NextReport ==
    \/ LoadCustomLexicon
    \/ ReturnOnFailedOverlay
    \/ LoadDictionary
    \/ InjectOverlay
    \/ ExtractWords
    \/ ClassifyUniqueWords
    \/ GroupWords
    \/ Categorise
    \/ FindClusters
    \/ WriteReport
    \/ ExportCustomLexicon

SpecReport == InitReport /\ [][NextReport]_vars

----------------------------------------------------------------------------
(* Vocabulary of the report claims *)

\* the overlay file, as read, has a row with an ortho that lacks a column or
\* has a freq or an is_lem that is no number
UnreadableRow(k) ==
    /\ Strip(overlay_file.rows[k].ortho) # <<>>
    /\ \/ overlay_file.rows[k].lemme = NoFieldText
       \/ overlay_file.rows[k].cgram = NoField
       \/ overlay_file.rows[k].freq \notin DOMAIN FloatTable
       \/ overlay_file.rows[k].is_lem \notin DOMAIN IntTable
\* the overlay file is still the one given: export_custom_lexicon has not run
OverlayAsGiven == rpc \notin {"idle", "done"}
OverlayWasRead == rpc \notin {"idle", "start"}

(* C23: if a row with a non-blank ortho of the custom overlay file lacks a  *)
(* column or has an unparseable freq or is_lem, load_custom_lexicon returns *)
(* None, not a partial overlay, and generate_html_report returns without    *)
(* loading the dictionary and without writing the report or the overlay     *)
(* file.                                                                    *)
C23_UnreadableOverlayStopsTheRun ==
    (/\ OverlayAsGiven
     /\ OverlayWasRead
     /\ overlay_file.exists
     /\ \E k \in 1..Len(overlay_file.rows) : UnreadableRow(k)) =>
        /\ custom_lexicon.failed
        /\ custom_lexicon.map = <<>>
        /\ rpc \in {"overlay_read", "returned"}
        /\ entries = <<>>
        /\ lexicon_words = NoneSet
        /\ custom_entries = [present |-> FALSE, map |-> <<>>]
        /\ words = <<>>
        /\ files_written = {}

C23_Witness ==
    /\ rpc = "returned"
    /\ Len(overlay_file.rows) = 2
    /\ ~UnreadableRow(1)
    /\ Strip(overlay_file.rows[1].ortho) # <<>>
    /\ UnreadableRow(2)
    /\ files_written = {}

\* the entry the claim gives a row: the defaults where a number is missing
\* or cannot be parsed
StatedEntry(row) ==
    LexiconEntry(row.ortho, row.lemme, row.cgram,
                 IF FreqColumn \in dictionary_file.columns /\ row.freq \in DOMAIN FloatTable
                 THEN FloatTable[row.freq] ELSE 0,
                 IF IsLemColumn \in dictionary_file.columns /\ row.islem \in DOMAIN IntTable
                 THEN IntTable[row.islem] # 0 ELSE FALSE)
\* the rows of one form, in file order
RowsOf(ortho) ==
    SelectSeq(dictionary_file.rows, LAMBDA row : row.ortho = ortho)
DictionaryWasRead == rpc \notin {"idle", "start", "overlay_read", "returned"}

(* C24: loading the base dictionary never fails on a row whose frequency or *)
(* is-lemma field is missing or unparseable: the row is stored with         *)
(* freq = 0.0 or is_lem = false, and every row of the file is loaded, in    *)
(* file order under its orthographic form.                                  *)
C24_LoadSubstitutesDefaults ==
    DictionaryWasRead =>
        /\ rpc # "raised"
        /\ DOMAIN entries = {dictionary_file.rows[k].ortho : k \in 1..Len(dictionary_file.rows)}
        /\ \A ortho \in DOMAIN entries :
              entries[ortho] = [k \in 1..Len(RowsOf(ortho)) |-> StatedEntry(RowsOf(ortho)[k])]

(* C25: once loaded, the dictionary is read-only: neither the injection of  *)
(* the custom overlay nor tokenization nor classification changes the       *)
(* form-to-entries mapping or the set of multi-word forms the Lexicon       *)
(* holds.                                                                   *)
C25_DictionaryReadOnly ==
    (DictionaryWasRead /\ rpc # "raised") =>
        /\ entries = load_lexicon(dictionary_file).entries
        /\ lexicon_compounds = build_compound_with_spaces_index(entries)

\* the run is the scenario's: its text, its dictionary, no overlay rows
IsScenario ==
    /\ text = ScenarioText
    /\ dictionary_file = ScenarioDictionary
    /\ custom_lexicon.map = <<>>
ClustersFound == rpc \in {"clustered", "report_written", "done"}
OccurrencesOfLemma(lemma) ==
    IF DictHas(lemma_positions, lemma) THEN Len(DictGet(lemma_positions, lemma)) ELSE 0
\* the lemmas reported under a category
ReportedUnder(cgram) ==
    IF DictHas(cgram_data, cgram)
    THEN {DictGet(cgram_data, cgram)[k].lemma : k \in 1..Len(DictGet(cgram_data, cgram))}
    ELSE {}
ReportedCount(cgram, lemma) ==
    LET listed == DictGet(cgram_data, cgram)
    IN  listed[CHOOSE k \in 1..Len(listed) : listed[k].lemma = lemma].count
ChatAndChienCounted ==
    /\ OccurrencesOfLemma(W_chat) = 2
    /\ DictHas(lemma_clusters, W_chat)
    /\ Len(DictGet(lemma_clusters, W_chat)) = 1
    /\ DictGet(lemma_clusters, W_chat)[1] = DictGet(lemma_positions, W_chat)
    /\ OccurrencesOfLemma(W_chien) = 1
    /\ ~DictHas(lemma_clusters, W_chien)

(* C26 as stated: for the scenario's text and dictionary the pipeline       *)
(* reports lemma chat with 2 occurrences in one cluster, lemma chien with   *)
(* 1 occurrence and no cluster, and category NOM with both lemmas.          *)
C26_Original_NomHasChatAndChien ==
    (IsScenario /\ ClustersFound) =>
        /\ ChatAndChienCounted
        /\ {W_chat, W_chien} \subseteq ReportedUnder("NOM")

(* C26 amended: for the scenario's text and dictionary, chat has 2          *)
(* occurrences in one cluster and chien 1 occurrence and no cluster; run    *)
(* with min_occurrences = 1 the report lists chat (2) and chien (1) under   *)
(* NOM; run with the default min_occurrences = 2 it lists chat alone under  *)
(* NOM and chien under no category.                                         *)
C26_NomHasChienOnlyFromOneOccurrence ==
    (IsScenario /\ ClustersFound) =>
        /\ ChatAndChienCounted
        /\ W_chat \in ReportedUnder("NOM")
        /\ ReportedCount("NOM", W_chat) = 2
        /\ report_min_occurrences = 1 =>
              /\ ReportedUnder("NOM") = {W_chat, W_chien}
              /\ ReportedCount("NOM", W_chien) = 1
        /\ report_min_occurrences = 2 =>
              /\ ReportedUnder("NOM") = {W_chat}
              /\ \A k \in 1..Len(cgram_data) : W_chien \notin ReportedUnder(cgram_data[k].key)

C26_Witness ==
    /\ IsScenario
    /\ rpc = "done"
    /\ report_min_occurrences = 1
    /\ ReportedUnder("NOM") = {W_chat, W_chien}
    /\ DictHas(lemma_clusters, W_chat)
    /\ "report" \in files_written

====
